---- MODULE Spec2Model ----
(***************************************************************************)
(* Portfolio dashboard: the quote / valuation enrichment pipeline.         *)
(*                                                                         *)
(* Modelled: the two expiring caches (lib/quoteCache.ts,                   *)
(* lib/googleCache.ts), the quote fetcher (both revisions of               *)
(* lib/getQuotes.ts that the repository holds), the secondary-metric       *)
(* fetcher (lib/getGoogleData.ts) and the /api/portfolio handler           *)
(* (pages/api/portfolio.ts).                                               *)
(*                                                                         *)
(* Conventions                                                             *)
(*  - A JavaScript "number | null" is a set: {} is null/undefined, {n} is  *)
(*    the number n.                                                        *)
(*  - Money, prices, EPS and P/E are integers counted in thousandths       *)
(*    (150000 is 150.000), so that rounding to 2 decimals is a real        *)
(*    operation.  Quantities are whole numbers.  gainLossPct is counted    *)
(*    in ten-thousandths.                                                  *)
(*  - A JavaScript object used as a map (Record<string, X>) is a function  *)
(*    whose DOMAIN is the set of keys present.                             *)
(*  - Time is in seconds.  A node-cache entry is [v, t] with t the         *)
(*    absolute expiry time; an entry is served while t >= now.             *)
(*  - Symbols are well-formed strings; the upstream's numeric fields are   *)
(*    numbers or absent.                                                   *)
(***************************************************************************)
EXTENDS Integers, Sequences, FiniteSets, TLC

(***************************************************************************)
(* Bounds of the model.                                                    *)
(***************************************************************************)
\* the clock advances at most this many times
MaxTicks == 2
\* the holdings file lists at most this many holdings
MaxHoldings == 2
\* a series of the chart upstream has at most this many entries
MaxSeries == 2
\* the dashboard starts at most this many fetches
MaxFetches == 3

\* the clock advances by one of these amounts (seconds)
TickSteps == {10, 3600}

Procs == {"p1", "p2"}

(***************************************************************************)
(* Program constants.                                                      *)
(***************************************************************************)
\* quoteCache.ts: const TTL_SECONDS = 20
QUOTE_TTL_SECONDS == 20
\* googleCache.ts: const TTL_SECONDS = 60 * 60
GOOGLE_TTL_SECONDS == 60 * 60
\* getQuotes.ts: const BATCH = 10
BATCH == 10

(***************************************************************************)
(* number | null                                                           *)
(***************************************************************************)
Null == {}
Num(n) == {n}
IsNum(x) == x # {}
Val(x) == CHOOSE n \in x : TRUE
\* a ?? b
Coalesce(a, b) == IF a # Null THEN a ELSE b

(***************************************************************************)
(* Strings.                                                                *)
(***************************************************************************)
Char(s, i) == SubSeq(s, i, i)

IsSpace(c) == c \in {" ", "\t", "\n", "\r"}

RECURSIVE TrimLeft(_)
TrimLeft(s) ==
    IF Len(s) > 0 /\ IsSpace(Char(s, 1)) THEN TrimLeft(Tail(s)) ELSE s

RECURSIVE TrimRight(_)
TrimRight(s) ==
    IF Len(s) > 0 /\ IsSpace(Char(s, Len(s)))
    THEN TrimRight(SubSeq(s, 1, Len(s) - 1))
    ELSE s

\* String.prototype.trim
Trim(s) == TrimRight(TrimLeft(s))

\* s.replace(/\s+/g, "")
RECURSIVE StripSpaces(_)
StripSpaces(s) ==
    IF Len(s) = 0 THEN s
    ELSE IF IsSpace(Char(s, 1)) THEN StripSpaces(Tail(s))
    ELSE Char(s, 1) \o StripSpaces(Tail(s))

Lower == <<"a","b","c","d","e","f","g","h","i","j","k","l","m",
           "n","o","p","q","r","s","t","u","v","w","x","y","z">>
Upper == <<"A","B","C","D","E","F","G","H","I","J","K","L","M",
           "N","O","P","Q","R","S","T","U","V","W","X","Y","Z">>

UpperChar(c) ==
    IF \E i \in 1..26 : Lower[i] = c
    THEN Upper[CHOOSE i \in 1..26 : Lower[i] = c]
    ELSE c

\* String.prototype.toUpperCase
RECURSIVE ToUpperCase(_)
ToUpperCase(s) ==
    IF Len(s) = 0 THEN s
    ELSE UpperChar(Char(s, 1)) \o ToUpperCase(Tail(s))

\* String.prototype.endsWith
EndsWith(s, suf) ==
    /\ Len(s) >= Len(suf)
    /\ SubSeq(s, Len(s) - Len(suf) + 1, Len(s)) = suf

\* s.replace(/\.NS$/i, "") and s.replace(/\.BO$/i, "")
StripSuffixI(s, suf) ==
    IF /\ Len(s) >= Len(suf)
       /\ ToUpperCase(SubSeq(s, Len(s) - Len(suf) + 1, Len(s))) = suf
    THEN SubSeq(s, 1, Len(s) - Len(suf))
    ELSE s

(***************************************************************************)
(* Maps and sequences.                                                     *)
(***************************************************************************)
EmptyMap == [k \in {} |-> {}]

\* m[k] = v on a JavaScript object
Put(m, k, v) == [x \in DOMAIN m \cup {k} |-> IF x = k THEN v ELSE m[x]]

Range(seq) == {seq[i] : i \in 1..Len(seq)}

Min(a, b) == IF a < b THEN a ELSE b

(***************************************************************************)
(* JavaScript values held in the quote map and the quote cache.            *)
(*   getQuotes.ts stores a bare number or null;                            *)
(*   part_003 stores an object {price, eps, earningsTimestamp}.            *)
(***************************************************************************)
JNull == [t |-> "null"]
JNumber(n) == [t |-> "number", n |-> n]
JQuote(price, eps, ets) ==
    [t |-> "object", price |-> price, eps |-> eps, earningsTimestamp |-> ets]

\* { price: null, eps: null, earningsTimestamp: null }
NullQuote == JQuote(Null, Null, Null)

\* a price read that turns a missing price into 0
PropPriceOrZero(v) == IF v.t = "object" THEN Coalesce(v.price, Num(0)) ELSE Num(0)

\* v?.price, v?.eps : undefined unless v is an object that has the property
PropPrice(v) == IF v.t = "object" THEN v.price ELSE Null

\* an EPS read that never finds one
PropEpsNone(v) == Null

\* v?.eps
PropEps(v) == IF v.t = "object" THEN v.eps ELSE Null

(***************************************************************************)
(* node-cache with stdTTL: an entry is [v, t]; get serves it while         *)
(* t >= now, set stamps now + stdTTL.                                      *)
(***************************************************************************)
\* a store that never expires its entries
LiveForever(cache, key, now_) == key \in DOMAIN cache

Live(cache, key, now_) == key \in DOMAIN cache /\ cache[key].t >= now_

QuoteKey(symbol) == "quote:" \o symbol
GoogleKey(symbol) == "google:" \o symbol

\* quoteCache.ts getCachedQuote: cache.get(`quote:${symbol}`) ?? null
getCachedQuote(cache, symbol, now_) ==
    IF Live(cache, QuoteKey(symbol), now_)
    THEN cache[QuoteKey(symbol)].v
    ELSE JNull

\* quoteCache.ts setCachedQuote
setCachedQuote(cache, symbol, data, now_) ==
    Put(cache, QuoteKey(symbol), [v |-> data, t |-> now_ + QUOTE_TTL_SECONDS])

\* quoteCache.ts clearCache: cache.flushAll()
clearCache(cache) == EmptyMap

\* googleCache.ts getCachedGoogle: undefined is modelled as JNull
getCachedGoogle(cache, symbol, now_) ==
    IF Live(cache, GoogleKey(symbol), now_)
    THEN cache[GoogleKey(symbol)].v
    ELSE JNull

\* a setCachedGoogle that keeps null results out of the cache
setCachedGoogleUnlessNull(cache, symbol, value, now_) ==
    IF value.pe = Null /\ value.earnings = Null THEN cache
    ELSE Put(cache, GoogleKey(symbol), [v |-> value, t |-> now_ + GOOGLE_TTL_SECONDS])

\* googleCache.ts setCachedGoogle
setCachedGoogle(cache, symbol, value, now_) ==
    Put(cache, GoogleKey(symbol), [v |-> value, t |-> now_ + GOOGLE_TTL_SECONDS])

(***************************************************************************)
(* The quote upstream.  One element of quoteResponse.result:               *)
(***************************************************************************)
QuoteRecord(symbol, rmp, prev, epsTTM, trailingEps, eps, ets) ==
    [symbol |-> symbol,
     regularMarketPrice |-> rmp,
     regularMarketPreviousClose |-> prev,
     epsTrailingTwelveMonths |-> epsTTM,
     trailingEps |-> trailingEps,
     eps |-> eps,
     earningsTimestamp |-> ets]

\* a record with a market price, trailing EPS and an earnings timestamp
RecLive(symbol) ==
    QuoteRecord(symbol, Num(150000), Num(149000), Num(5000), Null, Null, Num(1700))
\* a record with only the previous close, and an EPS of zero
RecPrev(symbol) ==
    QuoteRecord(symbol, Null, Num(140005), Null, Null, Num(0), Null)
\* a record that names the symbol and nothing else
RecBare(symbol) ==
    QuoteRecord(symbol, Null, Null, Null, Null, Null, Null)

\* the kinds of record the upstream may answer
RecordKinds == {"live", "prev", "bare"}

RecordOf(kind, symbol) ==
    CASE kind = "live" -> RecLive(symbol)
      [] kind = "prev" -> RecPrev(symbol)
      [] kind = "bare" -> RecBare(symbol)

\* The symbols the upstream knows.  It answers for any of them, whether or
\* not the request named it.
UpstreamSymbols == <<"TCS.NS", "ICICIBANK.NS">>

\* all ways of answering zero or one record for a symbol
MaybeRecord(symbol, kinds) == {<<>>} \cup {<<RecordOf(k, symbol)>> : k \in kinds}

\* all result arrays: per upstream symbol, in order, no record or one record
RECURSIVE ResultLists(_, _)
ResultLists(symbols, kinds) ==
    IF symbols = <<>> THEN {<<>>}
    ELSE {a \o b : a \in MaybeRecord(Head(symbols), kinds),
                   b \in ResultLists(Tail(symbols), kinds)}

\* What fetch + res.json() can produce for one batch:
\*   err   : fetch rejects (transport error)
\*   ok    : res.ok
\*   json  : the body parses as JSON (otherwise res.json() rejects)
\*   results : json?.quoteResponse?.result ?? []
\* A non-success answer carries an error body, never quote records.
QuoteResponse(err, ok, json, results) ==
    [err |-> err, ok |-> ok, json |-> json, results |-> results]

QuoteResponses(kinds) ==
    {QuoteResponse(TRUE, FALSE, FALSE, <<>>),
     QuoteResponse(FALSE, FALSE, FALSE, <<>>),
     QuoteResponse(FALSE, FALSE, TRUE, <<>>),
     QuoteResponse(FALSE, TRUE, FALSE, <<>>)}
    \cup
    {QuoteResponse(FALSE, TRUE, TRUE, results) :
        results \in ResultLists(UpstreamSymbols, kinds)}

\* the request failed: transport error or non-success status
QuoteFailed(resp) == resp.err \/ ~resp.ok

(***************************************************************************)
(* getQuotes: the two revisions.                                           *)
(*   "getQuotes_ts" is lib/getQuotes.ts (bare prices, checks res.ok,       *)
(*                  null-fills the symbols the answer left out);           *)
(*   "part_003"     is the revision returning {price, eps,                 *)
(*                  earningsTimestamp} objects.                            *)
(***************************************************************************)
Revisions == {"getQuotes_ts", "part_003"}

\* a hit test that accepts no cached value
IsCacheHitNever(rev_, cached) == FALSE

\* the cache-hit test of the "check cache" loop
\*   getQuotes.ts: cached !== null
\*   part_003    : cached && typeof cached === "object" && "price" in cached
IsCacheHit(rev, cached) ==
    IF rev = "getQuotes_ts" THEN cached # JNull ELSE cached.t = "object"

\* the "check cache" loop: st is [out, toFetch]
RECURSIVE CheckCache(_, _, _, _, _)
CheckCache(rev, cache, symbols, now_, st) ==
    IF symbols = <<>> THEN st
    ELSE LET s == Head(symbols)
             cached == getCachedQuote(cache, s, now_)
         IN CheckCache(rev, cache, Tail(symbols), now_,
                IF IsCacheHit(rev, cached)
                THEN [st EXCEPT !.out = Put(st.out, s, cached)]
                ELSE [st EXCEPT !.toFetch = Append(st.toFetch, s)])

\* toFetch.slice(i, i + BATCH), i counted from 0
BatchAt(toFetch, i) == SubSeq(toFetch, i + 1, Min(i + BATCH, Len(toFetch)))

\* a fill that also overwrites what the call already holds
FillBatchWiping(out, batch, v) ==
    [s \in DOMAIN out \cup Range(batch) |-> v]

\* for (const s of batch) out[s] = v
RECURSIVE FillBatch(_, _, _)
FillBatch(out, batch, v) ==
    IF batch = <<>> THEN out
    ELSE FillBatch(Put(out, Head(batch), v), Tail(batch), v)

\* for (const s of batch) if (out[s] === undefined) out[s] = null
RECURSIVE FillMissing(_, _)
FillMissing(out, batch) ==
    IF batch = <<>> THEN out
    ELSE FillMissing(IF Head(batch) \in DOMAIN out THEN out
                     ELSE Put(out, Head(batch), JNull),
                     Tail(batch))

\* part_003 lines 55-62: the object built from one result
QuoteOf(r) ==
    JQuote(Coalesce(r.regularMarketPrice, r.regularMarketPreviousClose),
           Coalesce(r.epsTrailingTwelveMonths, Coalesce(r.trailingEps, r.eps)),
           r.earningsTimestamp)

\* getQuotes.ts lines 48-49: the price of one result
PriceOf(r) == Coalesce(r.regularMarketPrice, r.regularMarketPreviousClose)

\* the "for (const r of results)" loop: st is [out, cache]
RECURSIVE FillResults(_, _, _, _)
FillResults(rev, st, results, now_) ==
    IF results = <<>> THEN st
    ELSE LET r == Head(results)
             sym == r.symbol
             next ==
               IF rev = "part_003"
               THEN [out |-> Put(st.out, sym, QuoteOf(r)),
                     cache |-> setCachedQuote(st.cache, sym, QuoteOf(r), now_)]
               ELSE IF IsNum(PriceOf(r))
               THEN [out |-> Put(st.out, sym, JNumber(Val(PriceOf(r)))),
                     cache |-> setCachedQuote(st.cache, sym,
                                              JNumber(Val(PriceOf(r))), now_)]
               ELSE [out |-> Put(st.out, sym, JNull), cache |-> st.cache]
         IN FillResults(rev, next, Tail(results), now_)

\* the body of the try/catch for one batch, given what the upstream did
ProcessBatch(rev, st, batch, resp, now_) ==
    IF rev = "part_003"
    THEN IF resp.err \/ ~resp.json
         THEN [st EXCEPT !.out = FillBatch(st.out, batch, NullQuote)]
         ELSE FillResults(rev, st, resp.results, now_)
    ELSE IF resp.err
         THEN [st EXCEPT !.out = FillBatch(st.out, batch, JNull)]
         ELSE IF ~resp.ok
         THEN [st EXCEPT !.out = FillBatch(st.out, batch, JNull)]
         ELSE IF ~resp.json
         THEN [st EXCEPT !.out = FillBatch(st.out, batch, JNull)]
         ELSE LET f == FillResults(rev, st, resp.results, now_)
              IN [f EXCEPT !.out = FillMissing(f.out, batch)]

(***************************************************************************)
(* State.                                                                  *)
(***************************************************************************)
VARIABLES
    rev,          \* which revision of getQuotes the build contains
    file,         \* data/portfolio_sample.json as it lies on disk
    now,          \* Date.now(), in seconds
    ticks,        \* how often the clock has advanced
    quoteCache,   \* the NodeCache of quoteCache.ts
    googleCache,  \* the NodeCache of googleCache.ts
    pc,           \* per request: where its execution stands
    q,            \* per request: the frame of its getQuotes call
    g,            \* per request: the frame of its getGoogleData call
    h,            \* per request: the frame of the /api/portfolio handler
    lastCall,     \* history: per symbol, the latest getQuotes call that fetched it
    lastMetric,   \* history: per symbol, the latest result getGoogleData made
    historyCache, \* the NodeCache of pages/api/history.ts
    history,      \* the frame of the /api/history handler
    dash          \* the dashboard page: its React state and its fetches

vars == <<rev, file, now, ticks, quoteCache, googleCache, pc, q, g, h,
          lastCall, lastMetric, historyCache, history, dash>>

\* A getQuotes frame.  symbols, out, toFetch, i are the function's locals;
\* the other fields record what the call did:
\*   start     : the time of the call
\*   hits      : the symbols served from the cache
\*   stale     : the symbols whose cache entry had expired when looked up
\*   requested : the batches an upstream request was issued for
\*   answers   : what the upstream did for each of them, as far as answered
QIdle ==
    [caller |-> "none", symbols |-> <<>>, out |-> EmptyMap, toFetch |-> <<>>,
     i |-> 0, start |-> 0, hits |-> {}, stale |-> {},
     requested |-> <<>>, answers |-> <<>>]

\* the clock advances
Tick(d) ==
    /\ ticks < MaxTicks
    /\ now' = now + d
    /\ ticks' = ticks + 1
    /\ lastCall' = [s \in {x \in DOMAIN lastCall :
                              lastCall[x].start + QUOTE_TTL_SECONDS >= now + d}
                      |-> lastCall[s]]
    /\ UNCHANGED <<historyCache, history, dash>>
    /\ UNCHANGED <<rev, file, quoteCache, googleCache, pc, q, g, h, lastMetric>>

\* getQuotes up to its first await, with the requests for all batches sent
\* at once
EnterGetQuotesAllAtOnce(p, symbols, caller) ==
    LET c == CheckCache(rev, quoteCache, symbols, now,
                        [out |-> EmptyMap, toFetch |-> <<>>])
    IN /\ q' = [q EXCEPT ![p] =
                 [QIdle EXCEPT !.caller = caller, !.symbols = symbols,
                               !.out = c.out, !.toFetch = c.toFetch,
                               !.start = now, !.hits = DOMAIN c.out,
                               !.requested =
                                  [k \in 1..((Len(c.toFetch) + BATCH - 1) \div BATCH)
                                     |-> BatchAt(c.toFetch, (k - 1) * BATCH)]]]
       /\ pc' = [pc EXCEPT ![p] = IF c.toFetch = <<>> THEN "qRet" ELSE "qAwait"]

\* getQuotes(symbols) up to its first await: the cache loop, the early
\* return, and the request for the first batch
EnterGetQuotes(p, symbols, caller) ==
    LET c == CheckCache(rev, quoteCache, symbols, now,
                        [out |-> EmptyMap, toFetch |-> <<>>])
    IN /\ q' = [q EXCEPT ![p] =
                 [caller |-> caller, symbols |-> symbols, out |-> c.out,
                  toFetch |-> c.toFetch, i |-> 0, start |-> now,
                  hits |-> DOMAIN c.out,
                  stale |-> {s \in Range(symbols) :
                               /\ QuoteKey(s) \in DOMAIN quoteCache
                               /\ quoteCache[QuoteKey(s)].t < now},
                  requested |-> IF c.toFetch = <<>> THEN <<>>
                                ELSE <<BatchAt(c.toFetch, 0)>>,
                  answers |-> <<>>]]
       /\ pc' = [pc EXCEPT ![p] = IF c.toFetch = <<>> THEN "qRet" ELSE "qAwait"]

\* a direct call of getQuotes
CallGetQuotes(p, symbols) ==
    /\ pc[p] = "idle"
    /\ EnterGetQuotes(p, symbols, "direct")
    /\ UNCHANGED <<historyCache, history, dash>>
    /\ UNCHANGED <<rev, file, now, ticks, quoteCache, googleCache, g, h,
                   lastCall, lastMetric>>

\* getQuotes continues after the upstream did resp for the outstanding batch
AfterQuoteResponse(p, resp) ==
    LET f == q[p]
        batch == BatchAt(f.toFetch, f.i)
        st == ProcessBatch(rev, [out |-> f.out, cache |-> quoteCache],
                           batch, resp, now)
        i2 == f.i + BATCH
        more == i2 < Len(f.toFetch)
    IN /\ quoteCache' = st.cache
       /\ q' = [q EXCEPT ![p] =
                 [f EXCEPT !.out = st.out,
                           !.i = i2,
                           !.answers = Append(f.answers, resp),
                           !.requested =
                              IF more
                              THEN Append(f.requested, BatchAt(f.toFetch, i2))
                              ELSE f.requested]]
       /\ pc' = [pc EXCEPT ![p] = IF more THEN "qAwait" ELSE "qRet"]

\* the upstream answers the outstanding batch; getQuotes runs on to its next
\* await (the request for the next batch) or to its return
QuoteAnswer(p, kinds) ==
    /\ pc[p] = "qAwait"
    /\ \E resp \in QuoteResponses(kinds) : AfterQuoteResponse(p, resp)
    /\ UNCHANGED <<historyCache, history, dash>>
    /\ UNCHANGED <<rev, file, now, ticks, googleCache, g, h, lastCall, lastMetric>>

\* the symbols one answer carries a record for
NamedIn(resp) == {resp.results[k].symbol : k \in 1..Len(resp.results)}

\* the symbols the answers to a call carried a record for
Named(f) == UNION {NamedIn(f.answers[k]) : k \in 1..Len(f.answers)}

\* the symbols a call was passed, missed in the cache, and returns a
\* non-null value for that an answer of the upstream carried
FetchedBy(f) ==
    {s \in Range(f.symbols) \cap DOMAIN f.out :
        s \notin f.hits /\ s \in Named(f) /\ f.out[s] # JNull}

\* the history after the call of frame f has finished: for every symbol of
\* FetchedBy(f), when the call started and the value it returns
Remember(f) ==
    [s \in DOMAIN lastCall \cup FetchedBy(f) |->
        IF s \in FetchedBy(f) THEN [start |-> f.start, v |-> f.out[s]]
        ELSE lastCall[s]]

\* a direct call of getQuotes returns
ReturnGetQuotes(p) ==
    /\ pc[p] = "qRet"
    /\ q[p].caller = "direct"
    /\ lastCall' = Remember(q[p])
    /\ q' = [q EXCEPT ![p] = QIdle]
    /\ pc' = [pc EXCEPT ![p] = "idle"]
    /\ UNCHANGED <<historyCache, history, dash>>
    /\ UNCHANGED <<rev, file, now, ticks, quoteCache, googleCache, g, h, lastMetric>>

(***************************************************************************)
(* getGoogleData.                                                          *)
(***************************************************************************)
\* { pe, earnings }
Metric(pe, earnings) == [t |-> "object", pe |-> pe, earnings |-> earnings]
NullMetric == Metric(Null, Null)

\* toGoogleSymbol: {} is null, {s} is the string s
toGoogleSymbol(yahooSymbol) ==
    IF yahooSymbol = "" THEN {}
    ELSE {StripSuffixI(StripSuffixI(yahooSymbol, ".NS"), ".BO") \o ":NSE"}

\* A page, as the heuristics see it: what each pattern captures ({} when it
\* does not match).
\*   pe   : the captures of the three peRegexes, in order
\*   earn : the captures of the four earnRegexes, in order
\*   af   : per AF_initDataCallback(...) block, the first "key": number in it
Page(pe, earn, af) == [pe |-> pe, earn |-> earn, af |-> af]

\* labelled figures: "PE ratio" and "EPS" match
PageLabeled ==
    Page(<<Null, Num(25000), Num(99000)>>, <<Null, Num(5000), Null, Null>>, <<>>)
\* nothing matches
PagePlain == Page(<<Null, Null, Null>>, <<Null, Null, Null, Null>>, <<>>)
\* only script blocks carry numbers
PageScript ==
    Page(<<Null, Null, Null>>, <<Null, Null, Null, Null>>,
         <<Null, Num(12000), Num(7000), Num(3000)>>)
\* a labelled P/E, no labelled earnings, one script block
PageMixed ==
    Page(<<Num(30000), Null, Null>>, <<Null, Null, Null, Null>>, <<Num(4000)>>)

Pages == {PageLabeled, PagePlain, PageScript, PageMixed}

\* the pages and record kinds the handler's request cycles are run against
HandlerPages == {PageLabeled, PagePlain}
HandlerKinds == {"live", "prev"}

\* for (const r of regexes) { ... break on the first numeric capture }
RECURSIVE FirstMatch(_)
FirstMatch(captures) ==
    IF captures = <<>> THEN Null
    ELSE IF IsNum(Head(captures)) THEN Head(captures)
    ELSE FirstMatch(Tail(captures))

\* Heuristic C: the loop over the AF_initDataCallback blocks
RECURSIVE ScanBlocks(_, _)
ScanBlocks(results, af) ==
    IF af = <<>> THEN results
    ELSE LET maybe == Head(af)
         IN ScanBlocks(
              IF ~IsNum(maybe) THEN results
              ELSE IF results.pe = Null THEN [results EXCEPT !.pe = maybe]
              ELSE IF results.earnings = Null
              THEN [results EXCEPT !.earnings = maybe]
              ELSE results,
              Tail(af))

tryParsePEAndEarnings(html) ==
    ScanBlocks(Metric(FirstMatch(html.pe), FirstMatch(html.earn)), html.af)

\* what fetchPage can do: reject (transport), answer a non-success status
\* (fetchPage throws), or deliver a page
GoogleResponse(err, ok, page) == [err |-> err, ok |-> ok, page |-> page]

GoogleResponses(pages) ==
    {GoogleResponse(TRUE, FALSE, PagePlain), GoogleResponse(FALSE, FALSE, PagePlain)}
    \cup {GoogleResponse(FALSE, TRUE, page) : page \in pages}

GoogleFailed(resp) == resp.err \/ ~resp.ok

\* a hit test that takes a cached null result for a miss
IsGoogleHitWithFigures(cached) ==
    cached # JNull /\ (cached.pe # Null \/ cached.earnings # Null)

\* if (cached)
IsGoogleHit(cached) == cached # JNull

\* what getGoogleData records about one symbol it handled
\*   how     : "hit", "unconvertible" or "fetched" (a page request was issued)
\*   v       : the result (JNull while the page request is outstanding)
\*   sawNull : when the symbol was looked up, a null result had been made
\*             for it less than the TTL ago
\*   failed  : the page request failed
LogEntry(s, how, v, sawNull) ==
    [s |-> s, how |-> how, v |-> v, sawNull |-> sawNull, failed |-> FALSE]

NullResultFresh(hist, s, now_) ==
    /\ s \in DOMAIN hist
    /\ hist[s].v = NullMetric
    /\ now_ <= hist[s].at + GOOGLE_TTL_SECONDS

\* The for-loop of getGoogleData from the head of todo up to the next await:
\* st is [todo, out, cache, log, hist].  It stops in front of the symbol whose
\* page has to be fetched, or at the end of the list.
RECURSIVE RunGoogleLoop(_, _)
RunGoogleLoop(st, now_) ==
    IF st.todo = <<>> THEN st
    ELSE LET s == Head(st.todo)
             cached == getCachedGoogle(st.cache, s, now_)
             saw == NullResultFresh(st.hist, s, now_)
         IN IF IsGoogleHit(cached)
            THEN RunGoogleLoop(
                   [st EXCEPT !.todo = Tail(st.todo),
                              !.out = Put(st.out, s, cached),
                              !.log = Append(st.log, LogEntry(s, "hit", cached, saw))],
                   now_)
            ELSE IF toGoogleSymbol(s) = {}
            THEN RunGoogleLoop(
                   [st EXCEPT !.todo = Tail(st.todo),
                              !.out = Put(st.out, s, NullMetric),
                              !.cache = setCachedGoogle(st.cache, s, NullMetric, now_),
                              !.hist = Put(st.hist, s, [at |-> now_, v |-> NullMetric]),
                              !.log = Append(st.log,
                                        LogEntry(s, "unconvertible", NullMetric, saw))],
                   now_)
            ELSE [st EXCEPT !.log = Append(st.log, LogEntry(s, "fetched", JNull, saw))]

\* A getGoogleData frame: symbols (yahooSymbols), out and todo (the part of
\* the list the loop has not finished) are the function's state; log records
\* how each symbol was handled.
GIdle ==
    [caller |-> "none", symbols |-> <<>>, out |-> EmptyMap, todo |-> <<>>,
     log |-> <<>>]

\* getGoogleData(yahooSymbols) up to its first await
EnterGetGoogleData(p, symbols, caller) ==
    LET st == RunGoogleLoop([todo |-> symbols, out |-> EmptyMap,
                             cache |-> googleCache, log |-> <<>>,
                             hist |-> lastMetric], now)
    IN /\ g' = [g EXCEPT ![p] =
                 [caller |-> caller, symbols |-> symbols, out |-> st.out,
                  todo |-> st.todo, log |-> st.log]]
       /\ googleCache' = st.cache
       /\ lastMetric' = st.hist
       /\ pc' = [pc EXCEPT ![p] = IF st.todo = <<>> THEN "gRet" ELSE "gAwait"]

\* a direct call of getGoogleData
CallGetGoogleData(p, symbols) ==
    /\ pc[p] = "idle"
    /\ EnterGetGoogleData(p, symbols, "direct")
    /\ UNCHANGED <<historyCache, history, dash>>
    /\ UNCHANGED <<rev, file, now, ticks, quoteCache, q, h, lastCall>>

\* getGoogleData continues after the page fetch for the symbol at the head
\* of todo did resp
AfterGoogleResponse(p, resp) ==
    LET f == g[p]
        s == Head(f.todo)
        parsed == tryParsePEAndEarnings(resp.page)
        m == IF GoogleFailed(resp) THEN NullMetric
             ELSE Metric(parsed.pe, Coalesce(parsed.earnings, Null))
        st == RunGoogleLoop(
                [todo |-> Tail(f.todo),
                 out |-> Put(f.out, s, m),
                 cache |-> setCachedGoogle(googleCache, s, m, now),
                 log |-> [f.log EXCEPT ![Len(f.log)].v = m,
                                       ![Len(f.log)].failed = GoogleFailed(resp)],
                 hist |-> Put(lastMetric, s, [at |-> now, v |-> m])],
                now)
    IN /\ g' = [g EXCEPT ![p] =
                 [f EXCEPT !.out = st.out, !.todo = st.todo, !.log = st.log]]
       /\ googleCache' = st.cache
       /\ lastMetric' = st.hist
       /\ pc' = [pc EXCEPT ![p] = IF st.todo = <<>> THEN "gRet" ELSE "gAwait"]

\* the page fetch for the symbol at the head of todo ends; getGoogleData
\* runs on to its next await or to its return
GoogleAnswer(p, pages) ==
    /\ pc[p] = "gAwait"
    /\ \E resp \in GoogleResponses(pages) : AfterGoogleResponse(p, resp)
    /\ UNCHANGED <<historyCache, history, dash>>
    /\ UNCHANGED <<rev, file, now, ticks, quoteCache, q, h, lastCall>>

\* a direct call of getGoogleData returns
ReturnGetGoogleData(p) ==
    /\ pc[p] = "gRet"
    /\ g[p].caller = "direct"
    /\ g' = [g EXCEPT ![p] = GIdle]
    /\ pc' = [pc EXCEPT ![p] = "idle"]
    /\ UNCHANGED <<historyCache, history, dash>>
    /\ UNCHANGED <<rev, file, now, ticks, quoteCache, googleCache, q, h,
                   lastCall, lastMetric>>

(***************************************************************************)
(* Raw holdings.  A holding is a JavaScript object: a function from the    *)
(* field names present to values, a value being JNull, JString(s) or       *)
(* JNumber(n).  Price and amount fields count thousandths, Qty counts      *)
(* units.  Particulars is a string or absent.                              *)
(***************************************************************************)
JString(str) == [t |-> "string", s |-> str]

\* h[k] : undefined (JNull) when the key is absent
Field(hd, k) == IF k \in DOMAIN hd THEN hd[k] ELSE JNull

\* a ?? b on values
Nullish(a, b) == IF a # JNull THEN a ELSE b

Digits == <<"0","1","2","3","4","5","6","7","8","9">>
IsDigit(c) == \E i \in 1..10 : Digits[i] = c
DigitValue(c) == (CHOOSE i \in 1..10 : Digits[i] = c) - 1

RECURSIVE AllDigits(_)
AllDigits(str) ==
    IF Len(str) = 0 THEN TRUE
    ELSE IsDigit(Char(str, 1)) /\ AllDigits(Tail(str))

RECURSIVE ParseDigits(_, _)
ParseDigits(str, acc) ==
    IF Len(str) = 0 THEN acc
    ELSE ParseDigits(Tail(str), acc * 10 + DigitValue(Char(str, 1)))

\* Number(v) || 0, the result counted in 1/scale: a number is itself, null
\* is 0, a string of digits is its value, any other string is NaN, and NaN
\* and 0 both end as 0
NumberOr0(v, scale) ==
    IF v.t = "number" THEN v.n
    ELSE IF v.t = "string"
    THEN IF AllDigits(Trim(v.s)) THEN ParseDigits(Trim(v.s), 0) * scale ELSE 0
    ELSE 0

\* v || null : the falsy values are null, "" and 0
Truthy(v) ==
    /\ v # JNull
    /\ (v.t = "string" => v.s # "")
    /\ (v.t = "number" => v.n # 0)

\* portfolio.ts: symbolMap, as its keys in insertion order and its values
symbolMapKeys == <<"TCS", "TCS Ltd", "ICICI Bank", "Bajaj Finance", "HDFC Bank">>
symbolMap ==
    [k \in Range(symbolMapKeys) |->
        CASE k = "TCS" -> "TCS.NS"
          [] k = "TCS Ltd" -> "TCS.NS"
          [] k = "ICICI Bank" -> "ICICIBANK.NS"
          [] k = "Bajaj Finance" -> "BAJFINANCE.NS"
          [] k = "HDFC Bank" -> "HDFCBANK.NS"]

\* portfolio.ts: sectorMap
sectorMap ==
    [k \in Range(symbolMapKeys) |->
        CASE k = "HDFC Bank" -> "Banking"
          [] k = "ICICI Bank" -> "Banking"
          [] k = "Bajaj Finance" -> "Financial Services"
          [] k = "TCS" -> "IT"
          [] k = "TCS Ltd" -> "IT"]

\* (h.Particulars || h["Particulars"] || "").toString().trim()
NameOf(hd) ==
    LET v == Field(hd, "Particulars")
    IN IF Truthy(v) /\ v.t = "string" THEN Trim(v.s) ELSE ""

\* the loop over Object.keys(symbolMap) of extractSymbol
RECURSIVE LookupNormalized(_, _)
LookupNormalized(keys, key) ==
    IF keys = <<>> THEN {}
    ELSE IF ToUpperCase(StripSpaces(Head(keys))) = key
    THEN {symbolMap[Head(keys)]}
    ELSE LookupNormalized(Tail(keys), key)

\* extractSymbol: {} is null, {s} is the string s
extractSymbol(hd) ==
    LET s == Nullish(Field(hd, "Symbol"),
             Nullish(Field(hd, "Ticker"),
             Nullish(Field(hd, "NSE/BSE"),
             Nullish(Field(hd, "NSE/BSE "),
             Nullish(Field(hd, "NSE"), JNull)))))
        name == NameOf(hd)
    IN IF Truthy(s) /\ s.t = "string" /\ Trim(s.s) # ""
       THEN {Trim(s.s)}
       ELSE IF name # "" /\ name \in DOMAIN symbolMap
       THEN {symbolMap[name]}
       ELSE LookupNormalized(symbolMapKeys, ToUpperCase(StripSpaces(name)))

\* s.endsWith(".NS") || s.endsWith(".BO") ? s : `${s}.NS`
YahooForm(s) == IF EndsWith(s, ".NS") \/ EndsWith(s, ".BO") THEN s ELSE s \o ".NS"

(***************************************************************************)
(* The holdings file.                                                      *)
(*   defects : what keeps JSON.parse from accepting the text               *)
(*   array   : the top-level value is an array                             *)
(*   items   : the holdings (one item when the value is a single object)   *)
(***************************************************************************)
FileOf(defects, array, items) ==
    [defects |-> defects, array |-> array, items |-> items]

\* what sanitizeJsonText repairs: a byte-order mark, control characters,
\* literal NaN, trailing commas, // and # comment lines
Repairable == {"bom", "control", "NaN", "trailingComma", "comment", "hashComment"}

sanitizeJsonText(raw) == [raw EXCEPT !.defects = @ \ Repairable]

\* a parser that accepts any text
JsonParseAnything(raw) == {raw}

\* JSON.parse: {} when it throws, otherwise {text}
JsonParse(raw) == IF raw.defects = {} THEN {raw} ELSE {}

\* lines 72-78: parse, and on failure sanitize and parse again
ParseFile(raw) ==
    IF JsonParse(raw) # {} THEN JsonParse(raw)
    ELSE JsonParse(sanitizeJsonText(raw))

(***************************************************************************)
(* Arithmetic of the reconciliation.                                       *)
(***************************************************************************)
Abs(x) == IF x < 0 THEN -x ELSE x
Sign(x) == IF x < 0 THEN -1 ELSE 1

\* round(a / b) to the nearest integer, halves away from zero (b # 0)
RoundDiv(a, b) ==
    Sign(a) * Sign(b) * ((2 * Abs(a) + Abs(b)) \div (2 * Abs(b)))

\* no rounding at all
Unrounded(x) == x

\* +x.toFixed(2) for x counted in thousandths
Round2(x) == RoundDiv(x, 10) * 10

\* k further decimal digits of a quotient by long division: acc is the
\* quotient so far, r the remainder (0 <= r < b)
RECURSIVE LongDiv(_, _, _, _)
LongDiv(r, b, k, acc) ==
    IF k = 0 THEN [quot |-> acc, rem |-> r]
    ELSE LongDiv((r * 10) % b, b, k - 1, acc * 10 + ((r * 10) \div b))

\* round(a / b * 10^k), halves away from zero (b # 0)
RoundRatio(a, b, k) ==
    LET d == LongDiv(Abs(a) % Abs(b), Abs(b), k, Abs(a) \div Abs(b))
    IN Sign(a) * Sign(b) * (d.quot + IF 2 * d.rem >= Abs(b) THEN 1 ELSE 0)

\* +(a / b).toFixed(4), a and b in thousandths, the result in ten-thousandths
Ratio4(a, b) == RoundRatio(a, b, 4)

\* +(a / b).toFixed(2), a and b in thousandths, the result in thousandths
Ratio2(a, b) == RoundRatio(a, b, 2) * 10

(***************************************************************************)
(* Step 2 of the handler: symbolByIndex and the de-duplicated symbols.     *)
(***************************************************************************)
\* a symbolByIndex that takes the name of a holding nothing resolves
SymbolByIndexOrName(rawHoldings) ==
    [i \in 1..Len(rawHoldings) |->
        IF extractSymbol(rawHoldings[i]) # {} THEN extractSymbol(rawHoldings[i])
        ELSE {NameOf(rawHoldings[i])}]

\* symbolByIndex, in input order
SymbolByIndex(rawHoldings) ==
    [i \in 1..Len(rawHoldings) |-> extractSymbol(rawHoldings[i])]

\* Array.from(symbolSet): the distinct symbols in order of first occurrence
RECURSIVE SymbolList(_, _)
SymbolList(byIndex, acc) ==
    IF byIndex = <<>> THEN acc
    ELSE LET sym == Head(byIndex)
         IN SymbolList(Tail(byIndex),
                IF sym = {} \/ Val(sym) \in Range(acc) THEN acc
                ELSE Append(acc, Val(sym)))

\* symbols.map(...)
YahooSymbols(symbols) == [i \in 1..Len(symbols) |-> YahooForm(symbols[i])]

(***************************************************************************)
(* Step 4 of the handler: one enriched holding.                            *)
(***************************************************************************)
\* an investment that is always purchasePrice * qty
InvestmentFromPrice(hd, purchasePrice, qty) == purchasePrice * qty

\* Number(h["Investment"] ?? 0) || purchasePrice * qty || 0
InvestmentOf(hd, purchasePrice, qty) ==
    LET explicit == NumberOr0(Nullish(Field(hd, "Investment"), JNumber(0)), 1000)
    IN IF explicit # 0 THEN explicit ELSE purchasePrice * qty

\* the callback of rawHoldings.map, for holding hd at index idx
Enrich(hd, idx, symbolByIndex, quotes, googleData) ==
    LET qty == NumberOr0(Nullish(Field(hd, "Qty"), JNumber(0)), 1)
        purchasePrice ==
            NumberOr0(Nullish(Field(hd, "Purchase Price"),
                      Nullish(Field(hd, "PurchasePrice"),
                      Nullish(Field(hd, "purchasePrice"), JNumber(0)))), 1000)
        investment == InvestmentOf(hd, purchasePrice, qty)
        symbol == symbolByIndex[idx]
        yahooSymbol ==
            IF symbol # {} /\ ~EndsWith(Val(symbol), ".NS")
                           /\ ~EndsWith(Val(symbol), ".BO")
            THEN {Val(symbol) \o ".NS"}
            ELSE symbol
        live == IF yahooSymbol # {} /\ Val(yahooSymbol) \in DOMAIN quotes
                THEN quotes[Val(yahooSymbol)]
                ELSE JNull
        cmpFromJson ==
            NumberOr0(Nullish(Field(hd, "CMP"),
                      Nullish(Field(hd, "cmp"), JNumber(0))), 1000)
        cmp == Val(Coalesce(PropPrice(live), Num(cmpFromJson)))
        presentValue == Round2(qty * cmp)
        gainLoss == Round2(presentValue - investment)
        gainLossPct == IF investment # 0 THEN Ratio4(gainLoss, investment) ELSE 0
        googleForThis ==
            IF yahooSymbol # {} /\ Val(yahooSymbol) \in DOMAIN googleData
            THEN googleData[Val(yahooSymbol)]
            ELSE JNull
        googlePe == IF googleForThis # JNull THEN googleForThis.pe ELSE Null
        googleEarnings ==
            IF googleForThis # JNull THEN googleForThis.earnings ELSE Null
        yahooEps == PropEps(live)
        finalPe ==
            IF googlePe # Null THEN googlePe
            ELSE IF yahooEps # Null /\ Val(yahooEps) # 0 /\ Val(yahooEps) > 0
            THEN Num(Ratio2(cmp, Val(yahooEps)))
            ELSE Null
        finalEarnings == Coalesce(googleEarnings, yahooEps)
        name == NameOf(hd)
        sector ==
            Nullish(Field(hd, "Sector"),
            Nullish(Field(hd, "Industry"),
                    IF name \in DOMAIN sectorMap
                    THEN JString(sectorMap[name])
                    ELSE JString("Unknown")))
    IN [raw |-> hd,
        symbol |-> yahooSymbol,
        qty |-> qty,
        purchasePrice |-> purchasePrice,
        investment |-> investment,
        cmp |-> cmp,
        presentValue |-> presentValue,
        gainLoss |-> gainLoss,
        gainLossPct |-> gainLossPct,
        pe |-> finalPe,
        latestEarnings |-> finalEarnings,
        sector |-> sector]

\* a map that leaves out the holdings whose symbol did not resolve
RECURSIVE EnrichFrom(_, _, _, _, _)
EnrichFrom(idx, rawHoldings, symbolByIndex, quotes, googleData) ==
    IF idx > Len(rawHoldings) THEN <<>>
    ELSE (IF symbolByIndex[idx] = {} THEN <<>>
          ELSE <<Enrich(rawHoldings[idx], idx, symbolByIndex, quotes, googleData)>>)
         \o EnrichFrom(idx + 1, rawHoldings, symbolByIndex, quotes, googleData)

EnrichResolved(rawHoldings, symbolByIndex, quotes, googleData) ==
    EnrichFrom(1, rawHoldings, symbolByIndex, quotes, googleData)

\* rawHoldings.map((h, idx) => ...)
EnrichAll(rawHoldings, symbolByIndex, quotes, googleData) ==
    [idx \in 1..Len(rawHoldings) |->
        Enrich(rawHoldings[idx], idx, symbolByIndex, quotes, googleData)]

(***************************************************************************)
(* Step 5 of the handler: the totals.                                      *)
(***************************************************************************)
ZeroTotals == [totalInvestment |-> 0, totalPresentValue |-> 0, totalGainLoss |-> 0]

\* a reduce that adds up qty * cmp, not the rounded presentValue
RECURSIVE TotalsUnrounded(_, _)
TotalsUnrounded(holdings, acc) ==
    IF holdings = <<>> THEN acc
    ELSE LET cur == Head(holdings)
         IN TotalsUnrounded(Tail(holdings),
                [totalInvestment |-> acc.totalInvestment + cur.investment,
                 totalPresentValue |-> acc.totalPresentValue + cur.qty * cur.cmp,
                 totalGainLoss |-> acc.totalGainLoss + cur.gainLoss])

\* holdings.reduce(...)
RECURSIVE Totals(_, _)
Totals(holdings, acc) ==
    IF holdings = <<>> THEN acc
    ELSE LET cur == Head(holdings)
         IN Totals(Tail(holdings),
                [totalInvestment |-> acc.totalInvestment + cur.investment,
                 totalPresentValue |-> acc.totalPresentValue + cur.presentValue,
                 totalGainLoss |-> acc.totalGainLoss + cur.gainLoss])

(***************************************************************************)
(* The /api/portfolio handler.                                             *)
(***************************************************************************)
\* A handler frame: the locals of handler, and the response (status 0 while
\* none has been sent).
HIdle ==
    [rawHoldings |-> <<>>, symbolByIndex |-> <<>>, yahooSymbols |-> <<>>,
     quotes |-> EmptyMap, googleData |-> EmptyMap,
     status |-> 0, holdings |-> <<>>, totals |-> ZeroTotals]

\* Steps 1 to 3 up to the first await: read and parse the file (500 when it
\* cannot be parsed), extract the symbols, call getQuotes when there is a
\* symbol and getGoogleData otherwise
HandlerStart(p) ==
    /\ pc[p] = "idle"
    /\ LET parsed == ParseFile(file)
       IN IF parsed = {}
          THEN /\ h' = [h EXCEPT ![p] = [HIdle EXCEPT !.status = 500]]
               /\ pc' = [pc EXCEPT ![p] = "hDone"]
               /\ UNCHANGED <<q, g, googleCache, lastMetric>>
          ELSE LET rawHoldings == Val(parsed).items
                   byIndex == SymbolByIndex(rawHoldings)
                   symbols == SymbolList(byIndex, <<>>)
                   yahooSymbols == YahooSymbols(symbols)
               IN /\ h' = [h EXCEPT ![p] =
                            [HIdle EXCEPT !.rawHoldings = rawHoldings,
                                          !.symbolByIndex = byIndex,
                                          !.yahooSymbols = yahooSymbols]]
                  /\ IF Len(symbols) > 0
                     THEN /\ EnterGetQuotes(p, yahooSymbols, "handler")
                          /\ UNCHANGED <<g, googleCache, lastMetric>>
                     ELSE /\ EnterGetGoogleData(p, yahooSymbols, "handler")
                          /\ UNCHANGED q
    /\ UNCHANGED <<historyCache, history, dash>>
    /\ UNCHANGED <<rev, file, now, ticks, quoteCache, lastCall>>

\* await getQuotes(...) resumes: quotes is bound and getGoogleData is called
HandlerAfterQuotes(p) ==
    /\ pc[p] = "qRet"
    /\ q[p].caller = "handler"
    /\ h' = [h EXCEPT ![p].quotes = q[p].out]
    /\ lastCall' = Remember(q[p])
    /\ EnterGetGoogleData(p, h[p].yahooSymbols, "handler")
    /\ UNCHANGED <<historyCache, history, dash>>
    /\ UNCHANGED <<rev, file, now, ticks, quoteCache, q>>

\* await getGoogleData(...) resumes: steps 4 to 6
HandlerAfterGoogle(p) ==
    /\ pc[p] = "gRet"
    /\ g[p].caller = "handler"
    /\ LET f == h[p]
           holdings == EnrichAll(f.rawHoldings, f.symbolByIndex, f.quotes, g[p].out)
       IN h' = [h EXCEPT ![p] =
                 [f EXCEPT !.googleData = g[p].out,
                           !.holdings = holdings,
                           !.totals = Totals(holdings, ZeroTotals),
                           !.status = 200]]
    /\ pc' = [pc EXCEPT ![p] = "hDone"]
    /\ UNCHANGED <<historyCache, history, dash>>
    /\ UNCHANGED <<rev, file, now, ticks, quoteCache, googleCache, q, g,
                   lastCall, lastMetric>>

\* the request is over
HandlerDone(p) ==
    /\ pc[p] = "hDone"
    /\ h' = [h EXCEPT ![p] = HIdle]
    /\ q' = [q EXCEPT ![p] = QIdle]
    /\ g' = [g EXCEPT ![p] = GIdle]
    /\ pc' = [pc EXCEPT ![p] = "idle"]
    /\ UNCHANGED <<historyCache, history, dash>>
    /\ UNCHANGED <<rev, file, now, ticks, quoteCache, googleCache,
                   lastCall, lastMetric>>

\* clearCache() is called: the one flush the two cache modules export
ClearQuoteCache(p) ==
    /\ pc[p] = "idle"
    /\ quoteCache' = clearCache(quoteCache)
    /\ lastCall' = EmptyMap
    /\ pc' = [pc EXCEPT ![p] = "cleared"]
    /\ UNCHANGED <<historyCache, history, dash>>
    /\ UNCHANGED <<rev, file, now, ticks, googleCache, q, g, h, lastMetric>>

\* clearCache() has returned
ClearReturn(p) ==
    /\ pc[p] = "cleared"
    /\ pc' = [pc EXCEPT ![p] = "idle"]
    /\ UNCHANGED <<historyCache, history, dash>>
    /\ UNCHANGED <<rev, file, now, ticks, quoteCache, googleCache, q, g, h,
                   lastCall, lastMetric>>

\* Step 2 of the handler alone: extractSymbol applied to the holdings read
ResolveSymbols(p) ==
    /\ pc[p] = "idle"
    /\ h' = [h EXCEPT ![p] =
               [HIdle EXCEPT !.rawHoldings = file.items,
                             !.symbolByIndex = SymbolByIndex(file.items)]]
    /\ pc' = [pc EXCEPT ![p] = "resolved"]
    /\ UNCHANGED <<historyCache, history, dash>>
    /\ UNCHANGED <<rev, file, now, ticks, quoteCache, googleCache, q, g,
                   lastCall, lastMetric>>

(***************************************************************************)
(* Inputs.                                                                 *)
(***************************************************************************)
\* Scenario A: resolved through the symbol table by its exact name
HoldingTCS ==
    [k \in {"Particulars", "Qty", "Purchase Price"} |->
        CASE k = "Particulars" -> JString("TCS")
          [] k = "Qty" -> JNumber(10)
          [] k = "Purchase Price" -> JNumber(100000)]

\* an explicit ticker without exchange suffix, a quantity given as text and
\* a JSON price
HoldingTicker ==
    [k \in {"Particulars", "Symbol", "Qty", "PurchasePrice", "CMP"} |->
        CASE k = "Particulars" -> JString("Tata Consultancy")
          [] k = "Symbol" -> JString(" TCS ")
          [] k = "Qty" -> JString("2")
          [] k = "PurchasePrice" -> JNumber(90000)
          [] k = "CMP" -> JNumber(120000)]

\* Scenario B: resolved by the normalized name; explicit Investment with a
\* third decimal (500.004), Qty 0
HoldingICICI ==
    [k \in {"Particulars", "Qty", "Investment", "CMP", "Sector"} |->
        CASE k = "Particulars" -> JString("icici  bank")
          [] k = "Qty" -> JNumber(0)
          [] k = "Investment" -> JNumber(500004)
          [] k = "CMP" -> JNumber(90005)
          [] k = "Sector" -> JString("Banking")]

\* a holding no rule resolves, with a purchase price that is no number
HoldingUnknown ==
    [k \in {"Particulars", "Qty", "Purchase Price", "CMP"} |->
        CASE k = "Particulars" -> JString("Foo Corp")
          [] k = "Qty" -> JNumber(3)
          [] k = "Purchase Price" -> JString("n/a")
          [] k = "CMP" -> JNumber(50005)]

HoldingMenu == {HoldingTCS, HoldingTicker, HoldingICICI, HoldingUnknown}

RECURSIVE SeqsUpTo(_, _)
SeqsUpTo(S, n) ==
    IF n = 0 THEN {<<>>}
    ELSE LET shorter == SeqsUpTo(S, n - 1)
         IN shorter \cup {Append(x, e) : x \in shorter, e \in S}

Files ==
    {FileOf({}, TRUE, items) : items \in SeqsUpTo(HoldingMenu, MaxHoldings)}
    \cup {FileOf({}, FALSE, <<HoldingTCS>>),
          FileOf({"trailingComma", "NaN"}, TRUE, <<HoldingTCS>>),
          FileOf({"truncated"}, TRUE, <<HoldingTCS>>)}

NoFile == FileOf({}, TRUE, <<>>)

\* a field the holding does not have
Absent == [t |-> "absent"]

\* the holding with the given values for its ticker fields and its name
MakeHolding(symbol, ticker, nseBse, nseBseSp, nse, particulars) ==
    LET all == [k \in {"Symbol", "Ticker", "NSE/BSE", "NSE/BSE ", "NSE",
                       "Particulars"} |->
                   CASE k = "Symbol" -> symbol
                     [] k = "Ticker" -> ticker
                     [] k = "NSE/BSE" -> nseBse
                     [] k = "NSE/BSE " -> nseBseSp
                     [] k = "NSE" -> nse
                     [] k = "Particulars" -> particulars]
    IN [k \in {x \in DOMAIN all : all[x] # Absent} |-> all[k]]

\* the holdings extractSymbol is tried on: every ticker field absent or
\* holding a ticker, Symbol also null, empty, blank, padded or a number, and
\* the name absent, empty, a key of the symbol table, a key up to case and
\* spacing, or unknown
ResolveInputs ==
    {MakeHolding(symbol, ticker, nseBse, nseBseSp, nse, particulars) :
        symbol \in {Absent, JNull, JString(""), JString("  "),
                    JString(" INFY "), JNumber(0), JNumber(7)},
        ticker \in {Absent, JString("TCS")},
        nseBse \in {Absent, JString("HDFCBANK.BO")},
        nseBseSp \in {Absent, JString("SBIN")},
        nse \in {Absent, JString(" WIPRO")},
        particulars \in {Absent, JString(""), JString("TCS"),
                         JString(" TCS Ltd "), JString("icici  bank"),
                         JString("Foo Corp")}}

\* the symbol lists of the direct calls
QuoteCallInputs ==
    {<<>>, <<"TCS.NS">>, <<"ICICIBANK.NS">>, <<"TCS.NS", "ICICIBANK.NS">>,
     <<"TCS.NS", "TCS.NS">>}

\* eleven symbols: one full batch and a second batch of one.  The upstream
\* knows the first and the last of them.
ManySymbols ==
    <<"TCS.NS", "A1.NS", "A2.NS", "A3.NS", "A4.NS", "A5.NS", "A6.NS", "A7.NS",
      "A8.NS", "A9.NS", "ICICIBANK.NS">>

\* eleven symbols again, the last being the first once more: what the
\* handler passes for holdings that name TCS, nine others and TCS.NS
RepeatedSymbols ==
    <<"TCS.NS", "A1.NS", "A2.NS", "A3.NS", "A4.NS", "A5.NS", "A6.NS", "A7.NS",
      "A8.NS", "A9.NS", "TCS.NS">>

\* the symbol lists of the direct calls that take more than one batch
BatchCallInputs == {ManySymbols, <<"ICICIBANK.NS">>}

GoogleCallInputs ==
    {<<>>, <<"TCS.NS">>, <<"">>, <<"TCS.NS", "ICICIBANK.NS">>,
     <<"TCS.NS", "TCS.NS">>, <<"", "ICICIBANK.NS">>}

(***************************************************************************)
(* The /api/history handler (pages/api/history.ts).  A series is a         *)
(* sequence of number | null; the upstream's chart result carries two of   *)
(* them, either of which may be missing ({}, else {series}).               *)
(***************************************************************************)
\* history.ts: new NodeCache({ stdTTL: 60 * 5, ... })
HISTORY_TTL_SECONDS == 60 * 5

\* (req.query.x as string) || d, an absent query parameter being ""
QueryOr(x, d) == IF x = "" THEN d ELSE x

\* `hist:${symbol}:${period}:${interval}`
HistoryKey(symbol, period, interval) ==
    "hist:" \o symbol \o ":" \o period \o ":" \o interval

\* result.timestamp ?? [], indicators?.close ?? []
SeriesOr(x) == IF x = {} THEN <<>> ELSE Val(x)

\* the loop of lines 73-80 without its null test
RECURSIVE TrimSeriesKeepingNulls(_, _, _, _)
TrimSeriesKeepingNulls(timestamps, close, i, acc) ==
    IF i > Min(Len(timestamps), Len(close)) THEN acc
    ELSE TrimSeriesKeepingNulls(timestamps, close, i + 1,
            [timestamps |-> Append(acc.timestamps, timestamps[i]),
             close |-> Append(acc.close, close[i])])

\* the loop of lines 73-80: from index i on, the pairs of which neither
\* part is null, appended to trimmedT and trimmedC
RECURSIVE TrimSeries(_, _, _, _)
TrimSeries(timestamps, close, i, acc) ==
    IF i > Min(Len(timestamps), Len(close)) THEN acc
    ELSE TrimSeries(timestamps, close, i + 1,
            IF timestamps[i] # Null /\ close[i] # Null
            THEN [timestamps |-> Append(acc.timestamps, timestamps[i]),
                  close |-> Append(acc.close, close[i])]
            ELSE acc)

\* the HistResp built at lines 82-86
HistResp(symbol, result) ==
    LET t == TrimSeries(SeriesOr(result.timestamp), SeriesOr(result.close), 1,
                        [timestamps |-> <<>>, close |-> <<>>])
    IN [symbol |-> symbol, timestamps |-> t.timestamps, close |-> t.close]

\* What the chart upstream does for one request: the fetch throws (err), or
\* answers with a status that is ok or not, a body that is JSON or not, and
\* in it a first chart result (result = {r}) or none (result = {}).
ChartResponse(err, ok, json, result) ==
    [err |-> err, ok |-> ok, json |-> json, result |-> result]

\* the series the upstream may send: missing, or of some length up to n,
\* entry i being null or a number that tells the index (base * i)
SeriesUpTo(n, base) ==
    {{}} \cup
    UNION {{{s} : s \in {x \in [1..k -> {Null} \cup {{base * i} : i \in 1..k}] :
                          \A i \in 1..k : x[i] \in {Null, {base * i}}}}
             : k \in 0..n}

ChartResponses ==
    {ChartResponse(TRUE, FALSE, FALSE, {}),
     ChartResponse(FALSE, FALSE, FALSE, {}),
     ChartResponse(FALSE, TRUE, FALSE, {}),
     ChartResponse(FALSE, TRUE, TRUE, {})}
    \cup {ChartResponse(FALSE, TRUE, TRUE, {[timestamp |-> t, close |-> c]}) :
            t \in SeriesUpTo(MaxSeries, 100), c \in SeriesUpTo(MaxSeries, 7)}

\* The handler's frame: where it stands (idle, await, done), the cache key,
\* what cache.get gave (cached), what the upstream did (chart, {} while it
\* was not asked or has not answered), and the response.
HistoryIdle ==
    [at |-> "idle", symbol |-> "", key |-> "", cached |-> {}, chart |-> {},
     status |-> 0, body |-> JNull]

\* lines 26-49: the request arrives; 400 without a symbol, the cached
\* response when there is one, else the chart request goes out
HistoryStart(symbol, periodQ, intervalQ) ==
    /\ history.at = "idle"
    /\ LET period == QueryOr(periodQ, "1mo")
           interval == QueryOr(intervalQ, "1d")
           key == HistoryKey(symbol, period, interval)
           cached == IF Live(historyCache, key, now)
                     THEN {historyCache[key].v} ELSE {}
       IN history' =
            IF symbol = ""
            THEN [HistoryIdle EXCEPT !.at = "done", !.status = 400]
            ELSE IF cached # {}
            THEN [HistoryIdle EXCEPT !.at = "done", !.symbol = symbol,
                                     !.key = key, !.cached = cached,
                                     !.status = 200, !.body = Val(cached)]
            ELSE [HistoryIdle EXCEPT !.at = "await", !.symbol = symbol,
                                     !.key = key]
    /\ UNCHANGED <<rev, file, now, ticks, quoteCache, googleCache, pc, q, g, h,
                   lastCall, lastMetric, historyCache, dash>>

\* lines 51-92: the chart request ends; 500 when the fetch or the body
\* parse throws, 502 on a non-success status or a body without a result,
\* else the trimmed series is cached and sent
HistoryAnswer(resp) ==
    /\ history.at = "await"
    /\ IF resp.err \/ (resp.ok /\ ~resp.json)
       THEN /\ history' = [history EXCEPT !.at = "done", !.chart = {resp},
                                          !.status = 500]
            /\ UNCHANGED historyCache
       ELSE IF ~resp.ok \/ resp.result = {}
       THEN /\ history' = [history EXCEPT !.at = "done", !.chart = {resp},
                                          !.status = 502]
            /\ UNCHANGED historyCache
       ELSE LET out == HistResp(history.symbol, Val(resp.result))
            IN /\ historyCache' =
                    Put(historyCache, history.key,
                        [v |-> out, t |-> now + HISTORY_TTL_SECONDS])
               /\ history' = [history EXCEPT !.at = "done", !.chart = {resp},
                                             !.status = 200, !.body = out]
    /\ UNCHANGED <<rev, file, now, ticks, quoteCache, googleCache, pc, q, g, h,
                   lastCall, lastMetric, dash>>

\* the request is over
HistoryDone ==
    /\ history.at = "done"
    /\ history' = HistoryIdle
    /\ UNCHANGED <<rev, file, now, ticks, quoteCache, googleCache, pc, q, g, h,
                   lastCall, lastMetric, historyCache, dash>>

(***************************************************************************)
(* The dashboard page (pages/index.tsx): its React state and its fetches   *)
(* of /api/portfolio.  A JSON object is a function from the field names    *)
(* present; data is {} (null) or {json}.                                   *)
(***************************************************************************)
\* the 200 payload of /api/portfolio (portfolio.ts lines 176-180)
ApiResp(holdings, totals) ==
    [lastUpdated |-> "2025-01-01T00:00:00.000Z", totals |-> totals,
     holdings |-> holdings]

\* the 500 payload of /api/portfolio (portfolio.ts line 183)
ErrorPayload == [error |-> "Server error", details |-> "Error"]

\* What one fetch of /api/portfolio ends with, as the page sees it: the
\* fetch rejects, or it resolves with a status and a body that is JSON
\* (json = {value}) or not (json = {}).
FetchReply(rejected, status, json) ==
    [rejected |-> rejected, status |-> status, json |-> json]

\* the i-th holding of a 200 payload; every fourth one has no sector
DashRow(i) ==
    [k \in {"Particulars", "presentValue"}
            \cup (IF i % 4 = 0 THEN {} ELSE {"sector"}) |->
        CASE k = "Particulars" -> IF i % 2 = 1 THEN "TCS Ltd" ELSE "ICICI Bank"
          [] k = "sector" -> IF i % 2 = 1 THEN "Technology" ELSE "Financials"
          [] k = "presentValue" -> 1000 * ((i * 5) % 7)]

\* the holdings a 200 payload may hold: none, one, or more than two pages
\* of the smallest page size
DashRows == {[i \in 1..n |-> DashRow(i)] : n \in {0, 1, 12}}

RECURSIVE SumPresent(_)
SumPresent(rows) ==
    IF rows = <<>> THEN 0 ELSE rows[1].presentValue + SumPresent(Tail(rows))

FetchReplies ==
    {FetchReply(TRUE, 0, {}),
     FetchReply(FALSE, 500, {}),
     FetchReply(FALSE, 500, {ErrorPayload})}
    \cup {FetchReply(FALSE, 200, {ApiResp(rows, SumPresent(rows))}) : rows \in DashRows}

\* lines 44-57: the state a freshly constructed page has; started counts
\* the fetches begun, inFlight holds the numbers of those not yet settled,
\* applied is the number of the fetch whose outcome was applied last and
\* last that outcome
DashInit ==
    [mounted |-> FALSE, loading |-> TRUE, data |-> {}, page |-> 1,
     pageSize |-> 10, search |-> "", sectorFilter |-> "All",
     sort |-> [key |-> "presentValue", dir |-> {"desc"}],
     groupBySector |-> FALSE,
     started |-> 0, inFlight |-> {}, applied |-> 0, last |-> {}]

\* lines 174-179: what the page renders
ViewAlwaysMain(d) == "main"

View(d) ==
    IF d.loading THEN "loading"
    ELSE IF d.data = {} THEN "error"
    ELSE "main"

\* line 78: data?.holdings ?? []
DashHoldings(d) ==
    IF d.data = {} \/ "holdings" \notin DOMAIN Val(d.data) THEN <<>>
    ELSE Val(d.data).holdings

\* lines 59-61 of fetchData: setLoading(true) and the fetch goes out
fetchData(d) ==
    [d EXCEPT !.loading = TRUE,
              !.started = d.started + 1,
              !.inFlight = d.inFlight \cup {d.started + 1}]

\* a promise chain that leaves the page where it is
SettleKeepingPage(d, n, reply) ==
    LET parsed == ~reply.rejected /\ reply.json # {}
    IN [d EXCEPT !.data = IF parsed THEN reply.json ELSE {},
                 !.loading = FALSE,
                 !.inFlight = d.inFlight \ {n},
                 !.applied = n,
                 !.last = {reply}]

\* lines 62-71 of fetchData: the promise chain of fetch number n runs on
\* reply
Settle(d, n, reply) ==
    LET parsed == ~reply.rejected /\ reply.json # {}
    IN [d EXCEPT !.data = IF parsed THEN reply.json ELSE {},
                 !.page = IF parsed THEN 1 ELSE d.page,
                 !.loading = FALSE,
                 !.inFlight = d.inFlight \ {n},
                 !.applied = n,
                 !.last = {reply}]

\* lines 74-76: the effect that runs once after the first render
DashMount ==
    /\ ~dash.mounted
    /\ dash' = [fetchData(dash) EXCEPT !.mounted = TRUE]
    /\ UNCHANGED <<rev, file, now, ticks, quoteCache, googleCache, pc, q, g, h,
                   lastCall, lastMetric, historyCache, history>>

\* lines 194-199: the Refresh button, which only the main view holds
DashRefresh ==
    /\ dash.mounted
    /\ View(dash) = "main"
    /\ dash.started < MaxFetches
    /\ dash' = fetchData(dash)
    /\ UNCHANGED <<rev, file, now, ticks, quoteCache, googleCache, pc, q, g, h,
                   lastCall, lastMetric, historyCache, history>>

LowerChar(c) ==
    IF \E i \in 1..26 : Upper[i] = c
    THEN Lower[CHOOSE i \in 1..26 : Upper[i] = c]
    ELSE c

\* String.prototype.toLowerCase
RECURSIVE ToLowerCase(_)
ToLowerCase(s) ==
    IF Len(s) = 0 THEN s
    ELSE LowerChar(Char(s, 1)) \o ToLowerCase(Tail(s))

\* String.prototype.includes
Includes(s, sub) ==
    \/ Len(sub) = 0
    \/ \E i \in 1..(Len(s) - Len(sub) + 1) : SubSeq(s, i, i + Len(sub) - 1) = sub

\* row.sector ?? d
SectorOr(row, d) == IF "sector" \in DOMAIN row THEN row.sector ELSE d

\* lines 86-90: the options of the sector filter
sectors(d) ==
    {"All"} \cup {SectorOr(DashHoldings(d)[i], "Unknown") :
                     i \in 1..Len(DashHoldings(d))}

\* lines 106-118: the sector filter (which reads a missing sector as
\* "Unknow"), then the search
filtered(d) ==
    LET s == ToLowerCase(Trim(d.search))
        BySector(row) ==
            d.sectorFilter = "All" \/ SectorOr(row, "Unknow") = d.sectorFilter
        BySearch(row) ==
            Len(s) = 0 \/ Includes(ToLowerCase(row.Particulars), s)
    IN SelectSeq(DashHoldings(d), LAMBDA row : BySector(row) /\ BySearch(row))

\* the comparator of lines 124-141, for a numeric column: negative when a
\* goes before b; a row without the column counts as -Infinity
SortCompare(a, b, sort) ==
    LET Less(x, y) ==
            /\ sort.key \in DOMAIN y
            /\ sort.key \notin DOMAIN x \/ x[sort.key] < y[sort.key]
    IN IF Less(a, b) THEN (IF sort.dir = {"asc"} THEN -1 ELSE 1)
       ELSE IF Less(b, a) THEN (IF sort.dir = {"asc"} THEN 1 ELSE -1)
       ELSE 0

\* Array.prototype.sort (stable): row goes behind the rows of arr that do
\* not come after it
RECURSIVE SortInsert(_, _, _)
SortInsert(arr, row, sort) ==
    IF arr = <<>> \/ SortCompare(arr[Len(arr)], row, sort) <= 0
    THEN Append(arr, row)
    ELSE Append(SortInsert(SubSeq(arr, 1, Len(arr) - 1), row, sort),
                arr[Len(arr)])

RECURSIVE SortRows(_, _, _)
SortRows(arr, n, sort) ==
    IF n = 0 THEN <<>>
    ELSE SortInsert(SortRows(arr, n - 1, sort), arr[n], sort)

\* lines 121-144
sorted(d) ==
    IF d.sort.dir = {} THEN filtered(d)
    ELSE SortRows(filtered(d), Len(filtered(d)), d.sort)

\* line 147
totalPages(d) ==
    LET n == Len(sorted(d))
    IN IF n = 0 THEN 1 ELSE (n + d.pageSize - 1) \div d.pageSize

\* lines 148-151
paged(d) ==
    LET start == (d.page - 1) * d.pageSize
    IN SubSeq(sorted(d), start + 1, Min(start + d.pageSize, Len(sorted(d))))

\* lines 154-161
toggleSort(d, key) ==
    [d EXCEPT !.page = 1,
              !.sort = IF d.sort.key # key THEN [key |-> key, dir |-> {"asc"}]
                       ELSE IF d.sort.dir = {"asc"}
                       THEN [key |-> key, dir |-> {"desc"}]
                       ELSE [key |-> key, dir |-> {}]]

\* a click on the header of column key
DashToggleSort(key) ==
    /\ View(dash) = "main"
    /\ dash' = toggleSort(dash, key)
    /\ UNCHANGED <<rev, file, now, ticks, quoteCache, googleCache, pc, q, g, h,
                   lastCall, lastMetric, historyCache, history>>

\* lines 393-398: typing into the search box
DashSearch(text) ==
    /\ View(dash) = "main"
    /\ dash' = [dash EXCEPT !.search = text, !.page = 1]
    /\ UNCHANGED <<rev, file, now, ticks, quoteCache, googleCache, pc, q, g, h,
                   lastCall, lastMetric, historyCache, history>>

\* lines 402-407: the sector select, whose options are sectors
DashSectorFilter(sector) ==
    /\ View(dash) = "main"
    /\ sector \in sectors(dash)
    /\ dash' = [dash EXCEPT !.sectorFilter = sector, !.page = 1]
    /\ UNCHANGED <<rev, file, now, ticks, quoteCache, googleCache, pc, q, g, h,
                   lastCall, lastMetric, historyCache, history>>

\* lines 441-445: the Group by Sector checkbox
DashGroup ==
    /\ View(dash) = "main"
    /\ dash' = [dash EXCEPT !.groupBySector = ~dash.groupBySector]
    /\ UNCHANGED <<rev, file, now, ticks, quoteCache, googleCache, pc, q, g, h,
                   lastCall, lastMetric, historyCache, history>>

\* lines 422-427: the page-size select of the main view
DashPageSize(n) ==
    /\ View(dash) = "main"
    /\ dash' = [dash EXCEPT !.pageSize = n, !.page = 1]
    /\ UNCHANGED <<rev, file, now, ticks, quoteCache, googleCache, pc, q, g, h,
                   lastCall, lastMetric, historyCache, history>>

\* lines 632-659: the First, Prev, Next and Last buttons of the main view,
\* each disabled on the page it would lead to
DashFirst ==
    /\ View(dash) = "main"
    /\ dash.page # 1
    /\ dash' = [dash EXCEPT !.page = 1]
    /\ UNCHANGED <<rev, file, now, ticks, quoteCache, googleCache, pc, q, g, h,
                   lastCall, lastMetric, historyCache, history>>

DashPrev ==
    /\ View(dash) = "main"
    /\ dash.page # 1
    /\ dash' = [dash EXCEPT !.page = IF dash.page - 1 > 1 THEN dash.page - 1 ELSE 1]
    /\ UNCHANGED <<rev, file, now, ticks, quoteCache, googleCache, pc, q, g, h,
                   lastCall, lastMetric, historyCache, history>>

DashNext ==
    /\ View(dash) = "main"
    /\ dash.page # totalPages(dash)
    /\ dash' = [dash EXCEPT !.page = Min(totalPages(dash), dash.page + 1)]
    /\ UNCHANGED <<rev, file, now, ticks, quoteCache, googleCache, pc, q, g, h,
                   lastCall, lastMetric, historyCache, history>>

DashLast ==
    /\ View(dash) = "main"
    /\ dash.page # totalPages(dash)
    /\ dash' = [dash EXCEPT !.page = totalPages(dash)]
    /\ UNCHANGED <<rev, file, now, ticks, quoteCache, googleCache, pc, q, g, h,
                   lastCall, lastMetric, historyCache, history>>

\* a fetch in flight settles
DashAnswer ==
    /\ \E n \in dash.inFlight : \E reply \in FetchReplies :
          dash' = Settle(dash, n, reply)
    /\ UNCHANGED <<rev, file, now, ticks, quoteCache, googleCache, pc, q, g, h,
                   lastCall, lastMetric, historyCache, history>>

(***************************************************************************)
(* Specifications.                                                         *)
(***************************************************************************)
InitCommon ==
    /\ rev \in Revisions
    /\ now = 0
    /\ ticks = 0
    /\ quoteCache = EmptyMap
    /\ googleCache = EmptyMap
    /\ pc = [p \in Procs |-> "idle"]
    /\ q = [p \in Procs |-> QIdle]
    /\ g = [p \in Procs |-> GIdle]
    /\ h = [p \in Procs |-> HIdle]
    /\ lastCall = EmptyMap
    /\ lastMetric = EmptyMap
    /\ historyCache = EmptyMap
    /\ history = HistoryIdle
    /\ dash = DashInit

\* Request cycles of the /api/portfolio handler, one at a time and in quick
\* succession: no cache entry expires (SpecQuotes and SpecGoogle let the
\* clock advance).
Init == InitCommon /\ file \in Files

Next ==
    \/ HandlerStart("p1")
    \/ QuoteAnswer("p1", HandlerKinds)
    \/ HandlerAfterQuotes("p1")
    \/ GoogleAnswer("p1", HandlerPages)
    \/ HandlerAfterGoogle("p1")
    \/ HandlerDone("p1")

Spec == Init /\ [][Next]_vars

\* direct calls of getQuotes, one at a time
InitQuotes == InitCommon /\ file = NoFile

NextQuotes ==
    \/ \E d \in TickSteps : Tick(d)
    \/ \E symbols \in QuoteCallInputs : CallGetQuotes("p1", symbols)
    \/ QuoteAnswer("p1", RecordKinds)
    \/ ReturnGetQuotes("p1")

SpecQuotes == InitQuotes /\ [][NextQuotes]_vars

\* extractSymbol on one holding
InitResolve ==
    /\ InitCommon
    /\ \E hd \in ResolveInputs : file = FileOf({}, FALSE, <<hd>>)

NextResolve == ResolveSymbols("p1")

SpecResolve == InitResolve /\ [][NextResolve]_vars

\* direct calls of getQuotes with more symbols than one batch holds
InitBatches == InitCommon /\ file = NoFile

NextBatches ==
    \/ \E symbols \in BatchCallInputs : CallGetQuotes("p1", symbols)
    \/ QuoteAnswer("p1", RecordKinds)
    \/ ReturnGetQuotes("p1")

SpecBatches == InitBatches /\ [][NextBatches]_vars

\* direct calls of getQuotes with lists of more than one batch, one of them
\* naming a symbol twice
InitPartition == InitCommon /\ file = NoFile

NextPartition ==
    \/ \E symbols \in BatchCallInputs \cup {RepeatedSymbols} :
          CallGetQuotes("p1", symbols)
    \/ QuoteAnswer("p1", HandlerKinds)
    \/ ReturnGetQuotes("p1")

SpecPartition == InitPartition /\ [][NextPartition]_vars

\* both caches in use, and flushes: calls of getQuotes, getGoogleData and
\* clearCache for one symbol, one at a time
InitCaches == InitCommon /\ file = NoFile

NextCaches ==
    \/ CallGetQuotes("p1", <<"TCS.NS">>)
    \/ QuoteAnswer("p1", HandlerKinds)
    \/ ReturnGetQuotes("p1")
    \/ CallGetGoogleData("p1", <<"TCS.NS">>)
    \/ GoogleAnswer("p1", HandlerPages)
    \/ ReturnGetGoogleData("p1")
    \/ ClearQuoteCache("p1")
    \/ ClearReturn("p1")

SpecCaches == InitCaches /\ [][NextCaches]_vars

\* direct calls of getGoogleData, one at a time
InitGoogle == InitCommon /\ file = NoFile

NextGoogle ==
    \/ \E d \in TickSteps : Tick(d)
    \/ \E symbols \in GoogleCallInputs : CallGetGoogleData("p1", symbols)
    \/ GoogleAnswer("p1", Pages)
    \/ ReturnGetGoogleData("p1")

SpecGoogle == InitGoogle /\ [][NextGoogle]_vars

\* requests to /api/history, one at a time, while the clock advances
InitHistory == InitCommon /\ file = NoFile /\ rev = "part_003"

NextHistory ==
    \/ \E d \in TickSteps : Tick(d)
    \/ \E symbol \in {"", "TCS.NS"}, period \in {"", "1mo", "5d"},
          interval \in {"", "1d"} : HistoryStart(symbol, period, interval)
    \/ \E resp \in ChartResponses : HistoryAnswer(resp)
    \/ HistoryDone

SpecHistory == InitHistory /\ [][NextHistory]_vars

\* the dashboard page and its fetches of /api/portfolio
InitDash == InitCommon /\ file = NoFile /\ rev = "part_003"

\* what is typed into the search box
SearchTexts == {"", " TCS ", "bank", "zz"}

NextDash ==
    \/ DashMount
    \/ DashRefresh
    \/ DashAnswer
    \/ \E n \in {5, 10, 20, 50} : DashPageSize(n)
    \/ DashFirst
    \/ DashPrev
    \/ DashNext
    \/ DashLast
    \/ \E text \in SearchTexts : DashSearch(text)
    \/ \E sector \in {"All", "Technology", "Financials", "Unknown"} :
           DashSectorFilter(sector)
    \/ \E key \in {"presentValue", "gainLoss"} : DashToggleSort(key)
    \/ DashGroup

SpecDash == InitDash /\ [][NextDash]_vars

\* the getQuotes calls of two request cycles for the same two symbols,
\* interleaving at their await points
InitCycles == InitCommon /\ file = NoFile

NextCycles ==
    \/ \E p \in Procs : CallGetQuotes(p, <<"TCS.NS", "ICICIBANK.NS">>)
    \/ \E p \in Procs : QuoteAnswer(p, HandlerKinds)
    \/ \E p \in Procs : ReturnGetQuotes(p)

SpecCycles == InitCycles /\ [][NextCycles]_vars

\* one request at a time: cycles of the /api/portfolio handler over a file
\* with two holdings, and direct calls of getQuotes with more symbols than
\* one batch holds
InitSequence == InitCommon /\ file = FileOf({}, TRUE, <<HoldingTCS, HoldingICICI>>)

NextSequence ==
    \/ HandlerStart("p1")
    \/ CallGetQuotes("p1", ManySymbols)
    \/ QuoteAnswer("p1", HandlerKinds)
    \/ ReturnGetQuotes("p1")
    \/ HandlerAfterQuotes("p1")
    \/ GoogleAnswer("p1", HandlerPages)
    \/ HandlerAfterGoogle("p1")
    \/ HandlerDone("p1")

SpecSequence == InitSequence /\ [][NextSequence]_vars

(***************************************************************************)
(* Properties of getQuotes (SpecQuotes).                                   *)
(***************************************************************************)
\* a call of getQuotes has run to its return
QuotesReturned(p) == pc[p] = "qRet"

\* the symbols of the batches a call issued an upstream request for
RequestedSymbols(f) == UNION {Range(f.requested[k]) : k \in 1..Len(f.requested)}

\* the request was answered with a non-success HTTP status
NonSuccess(resp) == ~resp.err /\ ~resp.ok

\* a fully-null quote: the object with three nulls; in getQuotes.ts, whose
\* quotes are bare prices, null
IsNullQuote(v) == v = NullQuote \/ v = JNull

\* C1: when getQuotes returns, the key set of the map it returns is exactly
\* the set of symbols it was passed, whatever the upstream did.
C1_KeysAreTheRequestedSymbols ==
    \A p \in Procs :
        QuotesReturned(p) => DOMAIN q[p].out = Range(q[p].symbols)

\* C2: when getQuotes returns, every symbol of a batch the upstream answered
\* with a non-success status maps to a fully-null quote.
C2_NonSuccessYieldsNullQuotes ==
    \A p \in Procs :
        QuotesReturned(p) =>
            \A k \in 1..Len(q[p].answers) :
                NonSuccess(q[p].answers[k]) =>
                    \A s \in Range(q[p].requested[k]) :
                        s \in DOMAIN q[p].out /\ IsNullQuote(q[p].out[s])

\* C3: a call of getQuotes that starts within the quote TTL of an earlier
\* call which fetched a value for symbol s issues no upstream request for s
\* and returns for s the value the earlier call returned.
C3_SecondCallWithinTtlIsServedFromCache ==
    \A p \in Procs :
        QuotesReturned(p) =>
            \A s \in Range(q[p].symbols) \cap DOMAIN lastCall :
                q[p].start <= lastCall[s].start + QUOTE_TTL_SECONDS =>
                    /\ s \notin RequestedSymbols(q[p])
                    /\ s \in DOMAIN q[p].out
                    /\ q[p].out[s] = lastCall[s].v

\* what getQuotes makes of one record of an answer
FreshValue(r) ==
    IF rev = "part_003" THEN QuoteOf(r)
    ELSE IF IsNum(PriceOf(r)) THEN JNumber(Val(PriceOf(r)))
    ELSE JNull

\* the values the answers to a call carried for symbol s
FreshValues(f, s) ==
    UNION {{FreshValue(f.answers[k].results[n]) :
               n \in {m \in 1..Len(f.answers[k].results) :
                        f.answers[k].results[m].symbol = s}} :
           k \in 1..Len(f.answers)}

\* C4: a symbol whose cache entry had expired when getQuotes looked it up is
\* handled as a symbol never fetched: it is not served from the cache, it is
\* part of toFetch and of a requested batch, and what the call returns for it
\* is a value the upstream's answers carried for it (a null quote, or no key,
\* when they carried none), never the expired entry.
C4_ExpiredEntryIsRefetched ==
    \A p \in Procs :
        pc[p] \in {"qAwait", "qRet"} =>
            \A s \in q[p].stale :
                /\ s \notin q[p].hits
                /\ s \in Range(q[p].toFetch)
                /\ QuotesReturned(p) =>
                     /\ s \in RequestedSymbols(q[p])
                     /\ s \in DOMAIN q[p].out =>
                          \/ q[p].out[s] \in FreshValues(q[p], s)
                          \/ /\ FreshValues(q[p], s) = {}
                             /\ IsNullQuote(q[p].out[s])

\* C4 witness: a call returns a freshly fetched value for a symbol whose
\* cache entry had expired, with a value other than the expired one.
C4_Witness ==
    \E p \in Procs :
        /\ QuotesReturned(p)
        /\ \E s \in q[p].stale :
              /\ s \in Named(q[p])
              /\ s \in DOMAIN q[p].out
              /\ q[p].out[s] # JNull
              /\ q[p].out[s] # NullQuote

(***************************************************************************)
(* Properties of getGoogleData (SpecGoogle).                               *)
(***************************************************************************)
\* a call of getGoogleData has run to its return
GoogleReturned(p) == pc[p] = "gRet"

\* C5: when getGoogleData returns, every symbol it was passed has an entry
\* {pe, earnings} in the map it returns, and the secondary-metric cache holds
\* that entry under the symbol; this includes the symbols whose page fetch
\* failed, that could not be converted, or whose page matched no heuristic.
C5_EverySymbolHasResultAndCacheEntry ==
    \A p \in Procs :
        GoogleReturned(p) =>
            \A s \in Range(g[p].symbols) :
                /\ s \in DOMAIN g[p].out
                /\ g[p].out[s].t = "object"
                /\ GoogleKey(s) \in DOMAIN googleCache
                /\ googleCache[GoogleKey(s)].v = g[p].out[s]

\* C5 witness: a call returns after one symbol could not be converted and
\* the page fetch for another one failed.
C5_Witness ==
    \E p \in Procs :
        /\ GoogleReturned(p)
        /\ \E a, b \in 1..Len(g[p].log) :
              /\ g[p].log[a].how = "unconvertible"
              /\ g[p].log[b].how = "fetched"
              /\ g[p].log[b].failed

\* C6: whenever getGoogleData handles a symbol for which a null result was
\* made less than the TTL (one hour) ago, it takes the cache hit: it issues
\* no page request for the symbol and its result is the null result.
C6_NullResultIsACacheHit ==
    \A p \in Procs :
        \A k \in 1..Len(g[p].log) :
            g[p].log[k].sawNull =>
                /\ g[p].log[k].how = "hit"
                /\ g[p].log[k].v = NullMetric

\* C6 witness: a later call, at a later time, is served the null result a
\* failed page fetch left in the cache.
C6_Witness ==
    \E p \in Procs :
        /\ GoogleReturned(p)
        /\ \E k \in 1..Len(g[p].log) :
              /\ g[p].log[k].sawNull
              /\ g[p].log[k].how = "hit"
              /\ g[p].log[k].s # ""
              /\ now > lastMetric[g[p].log[k].s].at

(***************************************************************************)
(* Properties of the /api/portfolio handler (Spec).                        *)
(***************************************************************************)
\* the handler has sent its response
Responded(p) == pc[p] = "hDone"

\* the raw holdings of the file, when it parses
RawOf(f) == Val(ParseFile(f)).items

\* what the symbol of a raw holding resolves to, in the upstream's form
ResolvedSymbol(hd) ==
    IF extractSymbol(hd) = {} THEN {} ELSE {YahooForm(Val(extractSymbol(hd)))}

\* the JSON-supplied current price of a raw holding, 0 when absent
JsonCmp(hd) ==
    NumberOr0(Nullish(Field(hd, "CMP"), Nullish(Field(hd, "cmp"), JNumber(0))), 1000)

\* the numeric price a fetched quote carries, {} when it carries none
LivePrice(quotes, sym) ==
    IF sym = {} \/ Val(sym) \notin DOMAIN quotes THEN {}
    ELSE LET v == quotes[Val(sym)]
         IN IF v.t = "object" THEN v.price
            ELSE IF v.t = "number" THEN {v.n}
            ELSE {}

\* C7: in a 200 response, the cmp of a holding whose symbol resolves and
\* whose fetched quote carries a numeric price is that price, also when the
\* holding has a JSON CMP field; the cmp of any other holding is its JSON
\* CMP, 0 when it has none.
C7_LivePriceTakesPrecedence ==
    \A p \in Procs :
        Responded(p) /\ h[p].status = 200 =>
            \A i \in 1..Len(h[p].holdings) :
                LET hd == RawOf(file)[i]
                    live == LivePrice(h[p].quotes, ResolvedSymbol(hd))
                IN h[p].holdings[i].cmp =
                       IF live # {} THEN Val(live) ELSE JsonCmp(hd)

\* every upstream request the cycle issued failed
AllRequestsFailed(p) ==
    /\ \A k \in 1..Len(q[p].answers) : QuoteFailed(q[p].answers[k])
    /\ \A k \in 1..Len(g[p].log) :
          g[p].log[k].how = "fetched" => g[p].log[k].failed

\* the cycle issued an upstream request
SomeRequest(p) ==
    \/ Len(q[p].requested) > 0
    \/ \E k \in 1..Len(g[p].log) : g[p].log[k].how = "fetched"

\* the cycle asked both upstreams for every one of its symbols
EverySymbolRequested(p) ==
    \A s \in Range(h[p].yahooSymbols) :
        /\ s \in RequestedSymbols(q[p])
        /\ \E k \in 1..Len(g[p].log) :
              g[p].log[k].s = s /\ g[p].log[k].how = "fetched"

\* 200, one enriched holding per raw holding, each with its JSON CMP as cmp
\* and neither pe nor latestEarnings
DegradedResponse(p) ==
    /\ h[p].status = 200
    /\ Len(h[p].holdings) = Len(RawOf(file))
    /\ \A i \in 1..Len(h[p].holdings) :
          /\ h[p].holdings[i].cmp = JsonCmp(RawOf(file)[i])
          /\ h[p].holdings[i].pe = Null
          /\ h[p].holdings[i].latestEarnings = Null

\* C8 as stated: when every upstream request of a cycle fails, the response
\* is 200 with one holding per raw holding, each with its JSON CMP (else 0)
\* as cmp and with pe and latestEarnings null.
C8_AllRequestsFailedGivesJsonValues ==
    \A p \in Procs :
        (/\ Responded(p)
         /\ ParseFile(file) # {}
         /\ SomeRequest(p)
         /\ AllRequestsFailed(p)) => DegradedResponse(p)

\* C8 amended: when every upstream request of a cycle fails and the cycle
\* asked both upstreams for every one of its symbols (none was served from a
\* cache entry an earlier cycle left), the response is 200 with one holding
\* per raw holding, each with its JSON CMP (else 0) as cmp and with pe and
\* latestEarnings null.
C8_AllRequestsFailedAndNoneCached ==
    \A p \in Procs :
        (/\ Responded(p)
         /\ ParseFile(file) # {}
         /\ AllRequestsFailed(p)
         /\ EverySymbolRequested(p)) => DegradedResponse(p)

\* C8 witness: a cycle with a resolved holding that has a JSON CMP, both
\* upstreams asked and both failing.
C8_Witness ==
    \E p \in Procs :
        /\ Responded(p)
        /\ h[p].status = 200
        /\ AllRequestsFailed(p)
        /\ EverySymbolRequested(p)
        /\ Len(q[p].answers) > 0
        /\ \E i \in 1..Len(h[p].holdings) :
              /\ h[p].holdings[i].symbol # {}
              /\ h[p].holdings[i].cmp > 0

\* C9: whenever the file parses, the response is 200 and its holdings have
\* the length of the raw holdings, the i-th one carrying the fields of the
\* i-th raw holding, its quantity and the symbol resolved for it.
C9_HoldingsAlignedWithInput ==
    \A p \in Procs :
        Responded(p) /\ ParseFile(file) # {} =>
            /\ h[p].status = 200
            /\ Len(h[p].holdings) = Len(RawOf(file))
            /\ \A i \in 1..Len(RawOf(file)) :
                  /\ h[p].holdings[i].raw = RawOf(file)[i]
                  /\ h[p].holdings[i].symbol = ResolvedSymbol(RawOf(file)[i])
                  /\ h[p].holdings[i].qty =
                        NumberOr0(Nullish(Field(RawOf(file)[i], "Qty"), JNumber(0)), 1)

\* C9 witness: a response for an unresolved holding followed by a resolved
\* one, with one of the upstream requests failing.
C9_Witness ==
    \E p \in Procs :
        /\ Responded(p)
        /\ Len(h[p].holdings) = 2
        /\ h[p].holdings[1].symbol = {}
        /\ h[p].holdings[2].symbol # {}
        /\ \E k \in 1..Len(q[p].answers) : QuoteFailed(q[p].answers[k])

\* the sum of one figure over the enriched holdings, from the last one back
RECURSIVE SumInvestment(_)
SumInvestment(holdings) ==
    IF holdings = <<>> THEN 0
    ELSE SumInvestment(SubSeq(holdings, 1, Len(holdings) - 1))
         + holdings[Len(holdings)].investment

RECURSIVE SumPresentValue(_)
SumPresentValue(holdings) ==
    IF holdings = <<>> THEN 0
    ELSE SumPresentValue(SubSeq(holdings, 1, Len(holdings) - 1))
         + holdings[Len(holdings)].presentValue

RECURSIVE SumGainLoss(_)
SumGainLoss(holdings) ==
    IF holdings = <<>> THEN 0
    ELSE SumGainLoss(SubSeq(holdings, 1, Len(holdings) - 1))
         + holdings[Len(holdings)].gainLoss

\* C10: in a 200 response the three totals are the sums of investment,
\* presentValue and gainLoss over the response's holdings, and all 0 for an
\* empty portfolio.
C10_TotalsAreTheSums ==
    \A p \in Procs :
        Responded(p) /\ h[p].status = 200 =>
            /\ h[p].totals.totalInvestment = SumInvestment(h[p].holdings)
            /\ h[p].totals.totalPresentValue = SumPresentValue(h[p].holdings)
            /\ h[p].totals.totalGainLoss = SumGainLoss(h[p].holdings)
            /\ h[p].holdings = <<>> => h[p].totals = ZeroTotals

\* C10 witness: a response with two holdings whose present values differ
\* from qty * cmp by the rounding, and non-zero totals.
C10_Witness ==
    \E p \in Procs :
        /\ Responded(p)
        /\ h[p].status = 200
        /\ Len(h[p].holdings) = 2
        /\ h[p].totals.totalPresentValue > 0
        /\ \E i \in 1..2 :
              h[p].holdings[i].presentValue
                  # h[p].holdings[i].qty * h[p].holdings[i].cmp

\* the batch requests of a getQuotes call that cover symbol s
RequestsCovering(f, s) == {k \in 1..Len(f.requested) : s \in Range(f.requested[k])}

\* the holdings of the file that resolve to symbol s
HoldingsOf(s) == {i \in 1..Len(RawOf(file)) : ResolvedSymbol(RawOf(file)[i]) = {s}}

\* C11: in a 200 response, for every symbol that several holdings resolve to
\* and that the cycle did not find in the quote cache, the cycle issued
\* exactly one quote batch request covering the symbol, and when the quote
\* fetched for it carries a numeric price, every one of those holdings has
\* that price as its cmp.
C11_SharedSymbolFetchedOnceAndShared ==
    \A p \in Procs :
        Responded(p) /\ h[p].status = 200 =>
            \A s \in Range(h[p].yahooSymbols) :
                Cardinality(HoldingsOf(s)) > 1 /\ s \notin q[p].hits =>
                    /\ Cardinality(RequestsCovering(q[p], s)) = 1
                    /\ LivePrice(h[p].quotes, {s}) # {} =>
                          \A i \in HoldingsOf(s) :
                              h[p].holdings[i].cmp = Val(LivePrice(h[p].quotes, {s}))

\* the step in which getQuotes of request p learns that its outstanding
\* batch request failed (transport error or non-success status)
FailedAnswerStep(p) ==
    /\ pc[p] = "qAwait"
    /\ Len(q'[p].answers) = Len(q[p].answers) + 1
    /\ QuoteFailed(q'[p].answers[Len(q'[p].answers)])

\* the symbols of toFetch no request has been issued for yet
NotYetRequested(f) == {s \in Range(f.toFetch) : s \notin RequestedSymbols(f)}

\* C12: when a batch request of getQuotes fails, the call goes on: every
\* symbol outside the failed batch keeps the value the call holds for it,
\* and when symbols are left to fetch the next batch is requested (the call
\* returns only when none is left).
C12_FailedBatchDoesNotAbort ==
    [][\A p \in Procs :
          FailedAnswerStep(p) =>
              LET f == q[p]
                  batch == f.requested[Len(f.requested)]
              IN /\ \A s \in DOMAIN f.out \ Range(batch) :
                        s \in DOMAIN q'[p].out /\ q'[p].out[s] = f.out[s]
                 /\ IF NotYetRequested(f) # {}
                    THEN /\ pc'[p] = "qAwait"
                         /\ Len(q'[p].requested) = Len(f.requested) + 1
                         /\ Range(q'[p].requested[Len(q'[p].requested)])
                               \subseteq NotYetRequested(f)
                    ELSE pc'[p] = "qRet"]_vars

\* C12 witness: a call of two batches returns; the first batch was answered
\* with a price for TCS.NS, the second batch failed, and the call returns the
\* price fetched for TCS.NS.
C12_Witness ==
    \E p \in Procs :
        /\ QuotesReturned(p)
        /\ Len(q[p].answers) = 2
        /\ ~QuoteFailed(q[p].answers[1])
        /\ QuoteFailed(q[p].answers[2])
        /\ "TCS.NS" \in Range(q[p].requested[1])
        /\ "TCS.NS" \in DOMAIN q[p].out
        /\ ~IsNullQuote(q[p].out["TCS.NS"])
        /\ LivePrice(q[p].out, {"TCS.NS"}) # {}

\* the step in which request p calls getQuotes
QuoteCallStep(p) == pc[p] = "idle" /\ pc'[p] \in {"qAwait", "qRet"}

\* the quote cache holds an entry for symbol s that has not expired
LiveQuoteEntry(s) ==
    /\ QuoteKey(s) \in DOMAIN quoteCache
    /\ quoteCache[QuoteKey(s)].t >= now

\* C13: when getQuotes is called with symbols that all have a live entry in
\* the quote cache (or with no symbol), it returns at once, without any
\* upstream request: its result maps exactly those symbols to the cached
\* values, and the cache is left as it was.
C13_AllHitsIssueNoRequest ==
    [][\A p \in Procs :
          (/\ QuoteCallStep(p)
           /\ \A s \in Range(q'[p].symbols) : LiveQuoteEntry(s)) =>
              /\ pc'[p] = "qRet"
              /\ q'[p].requested = <<>>
              /\ DOMAIN q'[p].out = Range(q'[p].symbols)
              /\ \A s \in Range(q'[p].symbols) :
                    q'[p].out[s] = quoteCache[QuoteKey(s)].v
              /\ quoteCache' = quoteCache]_vars

\* C13 witness: a call with two symbols, both served from the cache after
\* the clock has advanced, has returned without a request.
C13_Witness ==
    \E p \in Procs :
        /\ QuotesReturned(p)
        /\ q[p].requested = <<>>
        /\ q[p].symbols = <<"TCS.NS", "ICICIBANK.NS">>
        /\ DOMAIN q[p].out = {"TCS.NS", "ICICIBANK.NS"}
        /\ now > 0

(***************************************************************************)
(* Properties of extractSymbol (SpecResolve).                              *)
(***************************************************************************)
\* the explicit ticker fields
TickerFields == {"Symbol", "Ticker", "NSE/BSE", "NSE/BSE ", "NSE"}

\* the trimmed values of the ticker fields of hd that hold a non-blank string
ExplicitTickers(hd) ==
    {Trim(hd[k].s) : k \in {x \in TickerFields \cap DOMAIN hd :
                               hd[x].t = "string" /\ Trim(hd[x].s) # ""}}

\* the display name of hd, trimmed
DisplayName(hd) ==
    IF "Particulars" \in DOMAIN hd /\ hd["Particulars"].t = "string"
    THEN Trim(hd["Particulars"].s)
    ELSE ""

\* the symbol-table entries whose key is the name, exactly or after
\* stripping whitespace and uppercasing both sides
TableEntries(name, normalized) ==
    {symbolMap[k] : k \in {x \in DOMAIN symbolMap :
                             IF normalized
                             THEN ToUpperCase(StripSpaces(x))
                                     = ToUpperCase(StripSpaces(name))
                             ELSE x = name}}

\* C14: extractSymbol returns the trimmed value of an explicit ticker field
\* whenever one of the ticker fields holds a non-blank string; else the
\* symbol-table entry for the exact display name; else the entry whose key
\* equals the name after stripping whitespace and uppercasing; else nothing.
C14_ResolutionPrecedence ==
    \A p \in Procs :
        pc[p] = "resolved" =>
            LET hd == file.items[1]
                got == h[p].symbolByIndex[1]
                name == DisplayName(hd)
            IN IF ExplicitTickers(hd) # {}
               THEN got # {} /\ got \subseteq ExplicitTickers(hd)
               ELSE IF TableEntries(name, FALSE) # {}
               THEN got = TableEntries(name, FALSE)
               ELSE got = TableEntries(name, TRUE)

(***************************************************************************)
(* Further properties of the /api/portfolio handler (Spec).                *)
(***************************************************************************)
\* the symbols the holdings of the file resolve to
ResolvedSymbols(f) ==
    UNION {ResolvedSymbol(RawOf(f)[i]) : i \in 1..Len(RawOf(f))}

\* the symbols the cycle asked the secondary upstream for
PagesRequested(p) ==
    {g[p].log[k].s : k \in {n \in 1..Len(g[p].log) : g[p].log[n].how = "fetched"}}

\* C15: whenever the file parses, the response is 200 with one holding per
\* raw holding; the cycle asks the upstreams only for symbols that holdings
\* resolve to; and a holding whose symbol does not resolve has no symbol,
\* its JSON CMP (else 0) as cmp, and neither pe nor latestEarnings.
C15_UnresolvedHoldingFallsBack ==
    \A p \in Procs :
        Responded(p) /\ ParseFile(file) # {} =>
            /\ h[p].status = 200
            /\ Len(h[p].holdings) = Len(RawOf(file))
            /\ RequestedSymbols(q[p]) \cup PagesRequested(p)
                  \subseteq ResolvedSymbols(file)
            /\ \A i \in 1..Len(RawOf(file)) :
                  ResolvedSymbol(RawOf(file)[i]) = {} =>
                      /\ h[p].holdings[i].symbol = {}
                      /\ h[p].holdings[i].cmp = JsonCmp(RawOf(file)[i])
                      /\ h[p].holdings[i].pe = Null
                      /\ h[p].holdings[i].latestEarnings = Null

\* C15 witness: a 200 response for a holding that does not resolve and has
\* a JSON CMP, next to a holding that resolves and was fetched.
C15_Witness ==
    \E p \in Procs :
        /\ Responded(p)
        /\ h[p].status = 200
        /\ Len(h[p].holdings) = 2
        /\ ResolvedSymbol(RawOf(file)[1]) = {}
        /\ h[p].holdings[1].cmp > 0
        /\ h[p].holdings[2].symbol # {}
        /\ RequestedSymbols(q[p]) # {}
        /\ PagesRequested(p) # {}

\* y is x rounded to 2 decimals, both counted in thousandths: a whole number
\* of hundredths at most half a hundredth away from x
IsRoundedTo2(y, x) ==
    /\ y % 10 = 0
    /\ 2 * (IF y >= x THEN y - x ELSE x - y) <= 10

\* C16: in a 200 response every holding has presentValue = round(qty * cmp, 2),
\* gainLoss = round(presentValue - investment, 2), and gainLossPct =
\* round(gainLoss / investment, 4) when investment is not 0, else 0.
C16_DerivedFigures ==
    \A p \in Procs :
        Responded(p) /\ h[p].status = 200 =>
            \A i \in 1..Len(h[p].holdings) :
                LET e == h[p].holdings[i]
                IN /\ IsRoundedTo2(e.presentValue, e.qty * e.cmp)
                   /\ IsRoundedTo2(e.gainLoss, e.presentValue - e.investment)
                   /\ e.gainLossPct =
                         IF e.investment # 0
                         THEN RoundRatio(e.gainLoss, e.investment, 4)
                         ELSE 0

\* C16 witness: a response with a holding whose qty * cmp has a third
\* decimal and whose investment is 0, and a holding with a non-zero
\* investment and a non-zero gainLossPct.
C16_Witness ==
    \E p \in Procs :
        /\ Responded(p)
        /\ h[p].status = 200
        /\ \E i, j \in 1..Len(h[p].holdings) :
              /\ (h[p].holdings[i].qty * h[p].holdings[i].cmp) % 10 # 0
              /\ h[p].holdings[i].investment = 0
              /\ h[p].holdings[j].investment # 0
              /\ h[p].holdings[j].gainLossPct # 0

\* a field of a raw holding read as a number counted in 1/scale: 0 when the
\* field is missing, null, or no number
NumberField(hd, k, scale) ==
    IF k \in DOMAIN hd THEN NumberOr0(hd[k], scale) ELSE 0

\* C17: in a 200 response the investment of every holding is its explicit
\* Investment field when that is present and non-zero, and otherwise
\* purchasePrice * qty, with purchasePrice and qty 0 when their fields are
\* missing or cannot be read as numbers.
C17_InvestmentRule ==
    \A p \in Procs :
        Responded(p) /\ h[p].status = 200 =>
            \A i \in 1..Len(h[p].holdings) :
                LET hd == RawOf(file)[i]
                    e == h[p].holdings[i]
                    explicit == NumberField(hd, "Investment", 1000)
                    price ==
                        IF Field(hd, "Purchase Price") # JNull
                        THEN NumberField(hd, "Purchase Price", 1000)
                        ELSE IF Field(hd, "PurchasePrice") # JNull
                        THEN NumberField(hd, "PurchasePrice", 1000)
                        ELSE NumberField(hd, "purchasePrice", 1000)
                IN /\ e.qty = NumberField(hd, "Qty", 1)
                   /\ e.purchasePrice = price
                   /\ e.investment =
                         IF explicit # 0 THEN explicit ELSE price * e.qty

\* C17 witness (Scenario B): a holding with Investment 500.004 and Qty 0 has
\* investment 500.004, next to a holding whose purchase price cannot be read
\* and whose investment is 0.
C17_Witness ==
    \E p \in Procs :
        /\ Responded(p)
        /\ h[p].status = 200
        /\ \E i, j \in 1..Len(h[p].holdings) :
              /\ Field(RawOf(file)[i], "Investment") = JNumber(500004)
              /\ h[p].holdings[i].qty = 0
              /\ h[p].holdings[i].investment = 500004
              /\ Field(RawOf(file)[j], "Purchase Price").t = "string"
              /\ h[p].holdings[j].qty > 0
              /\ h[p].holdings[j].investment = 0

\* the P/E of the secondary metrics the cycle got for a symbol, {} when it
\* got none
SecondaryPe(googleData, sym) ==
    IF sym = {} \/ Val(sym) \notin DOMAIN googleData THEN {}
    ELSE googleData[Val(sym)].pe

\* the EPS the quote the cycle got for a symbol carries, {} when it carries
\* none
LiveEps(quotes, sym) ==
    IF sym = {} \/ Val(sym) \notin DOMAIN quotes THEN {}
    ELSE IF quotes[Val(sym)].t = "object" THEN quotes[Val(sym)].eps
    ELSE {}

\* C18: in a 200 response the pe of every holding is the P/E of the
\* secondary metrics when there is one; otherwise round(cmp / eps, 2) when
\* the quote carries an EPS greater than 0; otherwise null.
C18_PeRule ==
    \A p \in Procs :
        Responded(p) /\ h[p].status = 200 =>
            \A i \in 1..Len(h[p].holdings) :
                LET e == h[p].holdings[i]
                    sym == ResolvedSymbol(RawOf(file)[i])
                    secondary == SecondaryPe(h[p].googleData, sym)
                    eps == LiveEps(h[p].quotes, sym)
                IN e.pe =
                      IF secondary # {} THEN secondary
                      ELSE IF eps # {} /\ Val(eps) > 0
                      THEN {RoundRatio(e.cmp, Val(eps), 2) * 10}
                      ELSE {}

\* C18 witness: a holding without a secondary P/E whose quote carries a
\* positive EPS, its pe computed from the live price.
C18_Witness ==
    \E p \in Procs :
        /\ Responded(p)
        /\ h[p].status = 200
        /\ \E i \in 1..Len(h[p].holdings) :
              LET sym == ResolvedSymbol(RawOf(file)[i])
              IN /\ sym # {}
                 /\ SecondaryPe(h[p].googleData, sym) = {}
                 /\ LiveEps(h[p].quotes, sym) = {5000}
                 /\ h[p].holdings[i].cmp = 150000
                 /\ h[p].holdings[i].pe = {30000}

\* the text of the file has a defect the repair pass does not remove
Unrepairable(f) == f.defects \ Repairable # {}

\* C19: while the file has a defect the repair pass does not remove, every
\* response is a 500 without holdings, no request cycle ever calls getQuotes
\* or getGoogleData (no upstream request is issued), and no entry is written
\* to either cache.
C19_UnparseableFileGives500 ==
    Unrepairable(file) =>
        /\ quoteCache = EmptyMap
        /\ googleCache = EmptyMap
        /\ \A p \in Procs :
              /\ pc[p] \in {"idle", "hDone"}
              /\ q[p] = QIdle
              /\ g[p] = GIdle
              /\ Responded(p) =>
                    /\ h[p].status = 500
                    /\ h[p].holdings = <<>>

\* C19 witness: the handler has answered 500 for a truncated file.
C19_Witness ==
    \E p \in Procs :
        /\ Responded(p)
        /\ "truncated" \in file.defects
        /\ h[p].status = 500

(***************************************************************************)
(* Properties of the two caches together (SpecCaches).                     *)
(***************************************************************************)
\* C20: right after a clear, neither the quote cache nor the
\* secondary-metric cache holds an entry, so that get of every key is absent
\* and the next fetch of any symbol has to contact its upstream.
C20_ClearFlushesBothCaches ==
    \A p \in Procs :
        pc[p] = "cleared" =>
            /\ quoteCache = EmptyMap
            /\ googleCache = EmptyMap

(***************************************************************************)
(* Properties of the /api/history handler (SpecHistory).                   *)
(***************************************************************************)
\* the indices, in the two series of a chart result, at which neither
\* series holds null
KeptIndices(result) ==
    LET ts == SeriesOr(result.timestamp)
        cl == SeriesOr(result.close)
    IN {i \in 1..Min(Len(ts), Len(cl)) : ts[i] # Null /\ cl[i] # Null}

\* the k-th smallest member of a set of numbers
KthOf(S, k) == CHOOSE x \in S : Cardinality({y \in S : y <= x}) = k

\* the handler sends a 200 response in this step
HistorySucceeds ==
    history.at # "done" /\ history'.at = "done" /\ history'.status = 200

\* C21: whenever the history handler sends a 200 response, its timestamps
\* and close arrays have the same length and hold no null.  If the cache
\* holds a live entry for the key of the request (written less than five
\* minutes ago), the response is that entry, sent without asking the
\* upstream and without touching the cache.  Otherwise the k-th pair of the
\* response is the k-th index of the upstream's series at which neither is
\* null, and the response is stored under the key for five minutes.
C21_HistoryAlignedAndCached ==
    [][HistorySucceeds =>
        LET b == history'.body
            key == history'.key
        IN /\ Len(b.timestamps) = Len(b.close)
           /\ \A k \in 1..Len(b.timestamps) :
                 b.timestamps[k] # Null /\ b.close[k] # Null
           /\ IF key \in DOMAIN historyCache /\ historyCache[key].t >= now
              THEN /\ history.at = "idle"
                   /\ history'.chart = {}
                   /\ b = historyCache[key].v
                   /\ historyCache' = historyCache
              ELSE /\ history.at = "await"
                   /\ LET r == Val(Val(history'.chart).result)
                          kept == KeptIndices(r)
                      IN /\ Len(b.timestamps) = Cardinality(kept)
                         /\ \A k \in 1..Cardinality(kept) :
                               /\ b.timestamps[k] =
                                     SeriesOr(r.timestamp)[KthOf(kept, k)]
                               /\ b.close[k] = SeriesOr(r.close)[KthOf(kept, k)]
                   /\ historyCache'[key] = [v |-> b, t |-> now + 5 * 60]]_vars

\* C21 witness: a response served from the cache some time after it was
\* stored, holding the second pair of an upstream series whose first pair
\* had a null.
C21_Witness ==
    /\ history.at = "done"
    /\ history.status = 200
    /\ history.cached # {}
    /\ now > 0
    /\ historyCache[history.key].t < now + 5 * 60
    /\ history.body.timestamps = <<{200}>>
    /\ history.body.close = <<{14}>>

(***************************************************************************)
(* Properties of interleaved request cycles (SpecCycles).                  *)
(***************************************************************************)
\* the getQuotes call of cycle p has built the map it returns
QuoteMapBuilt(p) == pc[p] = "qRet"

\* the upstream answered with a success status and a JSON body
QuoteSucceeded(resp) == ~resp.err /\ resp.ok /\ resp.json

\* the getQuotes call of cycle p has built its map, it requested s, and
\* the answer to that request was a success that carried a record for s
FetchedSuccessfully(p, s) ==
    /\ QuoteMapBuilt(p)
    /\ \E k \in 1..Len(q[p].answers) :
          /\ s \in Range(q[p].requested[k])
          /\ QuoteSucceeded(q[p].answers[k])
          /\ s \in NamedIn(q[p].answers[k])

\* C22: when the getQuotes calls of two cycles both missed the cache on a
\* symbol, both got a successful answer with a record for it and both have
\* built their map, each map holds every symbol its call was passed, and
\* the cache entry of the symbol is the value one of the two maps holds
\* for it.
C22_InterleavedCyclesKeepEveryKey ==
    \A s \in RequestedSymbols(q["p1"]) \cap RequestedSymbols(q["p2"]) :
        FetchedSuccessfully("p1", s) /\ FetchedSuccessfully("p2", s) =>
            /\ \A p \in Procs : Range(q[p].symbols) \subseteq DOMAIN q[p].out
            /\ QuoteKey(s) \in DOMAIN quoteCache
            /\ \E p \in Procs : quoteCache[QuoteKey(s)].v = q[p].out[s]

(***************************************************************************)
(* Properties of the order of upstream requests (SpecSequence).            *)
(***************************************************************************)
\* the batch requests of the getQuotes call of p that are not answered yet
QuotePending(p) == Len(q[p].requested) - Len(q[p].answers)

\* the page requests of the getGoogleData call of p that have not ended
PagePending(p) ==
    Cardinality({k \in 1..Len(g[p].log) :
                    g[p].log[k].how = "fetched" /\ g[p].log[k].v = JNull})

\* C23: a request cycle has at most one upstream request outstanding, batch
\* and page requests counted together, and getGoogleData has looked at no
\* symbol before every batch of the cycle's getQuotes call was requested
\* and answered.
C23_OneRequestOutstanding ==
    \A p \in Procs :
        /\ QuotePending(p) >= 0
        /\ QuotePending(p) + PagePending(p) <= 1
        /\ g[p].log # <<>> =>
              /\ QuotePending(p) = 0
              /\ q[p].i >= Len(q[p].toFetch)

\* C23 witness: a handler cycle whose quote request was answered and whose
\* first page was fetched waits for the page of its second symbol.
C23_Witness ==
    /\ pc["p1"] = "gAwait"
    /\ q["p1"].caller = "handler"
    /\ Len(q["p1"].answers) = 1
    /\ Len(g["p1"].log) = 2
    /\ g["p1"].log[1].how = "fetched"
    /\ g["p1"].log[1].v # JNull
    /\ PagePending("p1") = 1

(***************************************************************************)
(* Properties of the batching of getQuotes (SpecPartition).                *)
(***************************************************************************)
\* the batches of a call, one after another
RECURSIVE Flatten(_)
Flatten(batches) ==
    IF batches = <<>> THEN <<>> ELSE Head(batches) \o Flatten(Tail(batches))

\* the batches of call f that hold symbol s
BatchesHolding(f, s) == {k \in 1..Len(f.requested) : s \in Range(f.requested[k])}

\* C24: when getQuotes returns, the batches it requested are at most 10
\* symbols each, ceil(n / 10) in number for n symbols that missed the
\* cache, and consecutive pieces of the list of misses; every symbol that
\* missed is in exactly one batch, and no symbol that hit is in any.
C24_BatchesPartitionTheMisses ==
    \A p \in Procs :
        QuotesReturned(p) =>
            LET f == q[p]
                misses == Range(f.symbols) \ f.hits
                n == Len(f.toFetch)
            IN /\ Len(f.requested) = (n + 9) \div 10
               /\ Len(f.requested) = Len(f.answers)
               /\ \A k \in 1..Len(f.requested) : Len(f.requested[k]) <= 10
               /\ Flatten(f.requested) = f.toFetch
               /\ Range(f.toFetch) = misses
               /\ \A s \in misses : Cardinality(BatchesHolding(f, s)) = 1
               /\ \A s \in f.hits : BatchesHolding(f, s) = {}

(***************************************************************************)
(* Properties of the dashboard page (SpecDash).                            *)
(***************************************************************************)
\* the outcome applied last is /api/portfolio's 500 with its error payload
AnsweredWithError ==
    dash.last = {FetchReply(FALSE, 500, {ErrorPayload})}

\* C25: once a fetch that /api/portfolio answered with status 500 and its
\* error payload has settled, and no fetch is in flight, the page shows its
\* error state and not the main view with the summary cards and the table.
C25_ErrorStatusShowsErrorState ==
    AnsweredWithError /\ dash.inFlight = {} => View(dash) = "error"

(***************************************************************************)
(* Properties of failed batches and of cache writes (SpecBatches).         *)
(***************************************************************************)
\* C26: the step in which getQuotes handles a failed batch request leaves
\* the quote cache as it was, and after it the cache holds no live entry
\* for a symbol of that batch, so that the next call requests it again.
C26_FailedBatchLeavesNoCacheEntry ==
    [][\A p \in Procs :
          FailedAnswerStep(p) =>
              LET batch == q[p].requested[Len(q[p].requested)]
              IN /\ quoteCache' = quoteCache
                 /\ \A s \in Range(batch) :
                       ~(/\ QuoteKey(s) \in DOMAIN quoteCache'
                         /\ quoteCache'[QuoteKey(s)].t >= now)]_vars

\* the step in which getQuotes of request p handles the answer to its
\* outstanding batch request
AnswerStep(p) ==
    pc[p] = "qAwait" /\ Len(q'[p].answers) = Len(q[p].answers) + 1

\* the cache keys whose entry a step wrote
KeysWritten ==
    {k \in DOMAIN quoteCache' : k \notin DOMAIN quoteCache \/ quoteCache'[k] # quoteCache[k]}

\* C27: in the step that handles the answer to a batch request, getQuotes
\* writes cache entries only under the symbols of that batch.
C27_WritesOnlyUnderBatchSymbols ==
    [][\A p \in Procs :
          AnswerStep(p) =>
              LET batch == q[p].requested[Len(q[p].requested)]
              IN KeysWritten \subseteq {QuoteKey(s) : s \in Range(batch)}]_vars

(***************************************************************************)
(* Properties of the handler's symbol list and totals (Spec).              *)
(***************************************************************************)
\* C28: the list of symbols a request cycle passes to getQuotes and
\* getGoogleData names no symbol twice.
C28_SymbolListHasNoDuplicate ==
    \A p \in Procs :
        \A i, j \in 1..Len(h[p].yahooSymbols) :
            i # j => h[p].yahooSymbols[i] # h[p].yahooSymbols[j]

\* C29: in every 200 response the total gain or loss equals the total
\* present value minus the total investment.
C29_TotalGainIsValueMinusInvestment ==
    \A p \in Procs :
        Responded(p) /\ h[p].status = 200 =>
            h[p].totals.totalGainLoss =
                h[p].totals.totalPresentValue - h[p].totals.totalInvestment

(* Properties of the dashboard's fetches (SpecDash). *)
\* C30: a fetch of /api/portfolio starts only on mount, or on Refresh
\* while loading is false and data is non-null, and only when no other
\* fetch is outstanding; at most one fetch is ever in flight, and the reply
\* that is applied belongs to the fetch started last.
C30_OneFetchInFlight ==
    [][/\ Cardinality(dash'.inFlight) <= 1
       /\ dash'.started # dash.started =>
             /\ dash.inFlight = {}
             /\ \/ ~dash.mounted
                \/ ~dash.loading /\ dash.data # {}
       /\ dash'.inFlight # dash.inFlight /\ dash'.started = dash.started =>
             /\ dash.inFlight = {dash.started}
             /\ dash'.applied = dash.started]_vars

\* C30 witness: a fetch begun by Refresh is in flight over the data of an
\* earlier fetch, whose reply has been applied.
C30_Witness ==
    /\ dash.started >= 2
    /\ dash.inFlight = {dash.started}
    /\ dash.applied = dash.started - 1
    /\ dash.loading
    /\ dash.data # {}

(* Properties of the table's pagination (SpecDash). *)
\* C31: whenever the main view with the table is shown, the current page
\* is at least 1 and at most totalPages, the number of pages the searched,
\* filtered and sorted rows fill at the current page size (1 for no rows).
C31_PageWithinRange ==
    View(dash) = "main" =>
        /\ 1 <= dash.page
        /\ dash.page <= totalPages(dash)
        /\ totalPages(dash) =
               IF sorted(dash) = <<>> THEN 1
               ELSE CHOOSE k \in 1..Len(sorted(dash)) :
                       /\ k * dash.pageSize >= Len(sorted(dash))
                       /\ (k - 1) * dash.pageSize < Len(sorted(dash))

\* C31 witness: after a Refresh, with a sector filter set and the rows
\* sorted, the table shows the last of several pages of the filtered rows,
\* which are fewer pages than the unfiltered rows would fill.
C31_Witness ==
    /\ View(dash) = "main"
    /\ dash.applied >= 2
    /\ dash.sectorFilter # "All"
    /\ dash.sort.dir # {}
    /\ dash.page = totalPages(dash)
    /\ dash.page >= 2
    /\ Len(sorted(dash)) < Len(DashHoldings(dash))
    /\ paged(dash) # <<>>

====
